---- MODULE Spec2Model ----
(***************************************************************************)
(* State-machine model of when::FeatureExtractor                           *)
(* (src/src/audio/feature_extractor.{h,cpp}).                              *)
(*                                                                         *)
(* Number representation.  The engine computes in float; the model         *)
(* computes in scaled integers and says which scale each quantity has:     *)
(*   magnitudes, energies, flux, onset strength : hundredths  (Q = 1.0)    *)
(*   smoothing / realign coefficients, ratios    : percent     (100 = 1.0) *)
(*   thresholds compared with the above          : millionths  (Micro=1.0) *)
(*   autocorrelation score, confidence           : millionths              *)
(*   bpm                                         : milli-bpm               *)
(*   frame period, tempo window                  : milliseconds            *)
(*   beat phase, bar phase                       : 1/PhaseUnits of a beat  *)
(*   A-weighting coefficients                    : thousandths (W = 1.0)   *)
(*   chroma shares                               : 1/ChromaScale           *)
(* Products that the code rounds to float are rounded to the grid here,    *)
(* toward zero; sums of phases are rounded as float rounds them, to        *)
(* nearest-even on a significand of PhaseBits bits.                        *)
(***************************************************************************)
EXTENDS Integers, Sequences, FiniteSets, TLC

VARIABLES
    eng,        \* the FeatureExtractor object (all its private members)
    features,   \* the AudioFeatures bundle returned by the last process call
    op,         \* the last public operation: "init", "prepare", "reset", "set_config", "process"
    frame,      \* the FeatureInputFrame of the last process call
    trace,      \* what the last process call did inside (observed, never read by the engine)
    frames,     \* number of process calls the caller has counted
    since,      \* wraps and downbeat frames counted by an observer (never read by the engine)
    twin,       \* a second engine fed the same frames (where two engines are compared)
    twin_features,  \* the bundle the second engine returned
    plan,       \* what the caller feeds: "free", "quiet", an impulse "train" or a "pair" of engines
    member,     \* an InstrumentStateMachine of the band animation (where one is driven)
    player,     \* a SpritePlayer of the band animation (where one is driven)
    watch       \* what an observer of the band animation has counted (never read by the objects)

vars == <<eng, features, op, frame, trace, frames, since, twin, twin_features, plan,
          member, player, watch>>

\* the objects of the band animation
stage == <<member, player, watch>>

----------------------------------------------------------------------------
(* Scales and program constants *)

Q == 10 ^ 2
Micro == 10 ^ 6
kDefaultOnsetHistoryLength == 512
kMinOnsetHistoryLength == 32
kMaxOnsetHistoryLength == 2048
UNMAPPED == 255

\* float significand width used for the phase grid (float32 has 24)
PhaseBits == 4
PhaseUnits == 2 ^ PhaseBits

----------------------------------------------------------------------------
(* Small helpers standing for <algorithm>/<numeric> *)

Min(a, b) == IF a < b THEN a ELSE b
Max(a, b) == IF a > b THEN a ELSE b
Clamp(x, lo, hi) == IF x < lo THEN lo ELSE IF hi < x THEN hi ELSE x
CeilDiv(a, b) == -((-a) \div b)
\* the element of a one-element set.  The({F(x) : x \in {v}}) is F(v) with v
\* worked out once, however often F uses it: the way a local variable of the
\* code is written here when its value is costly.
The(S) == CHOOSE x \in S : TRUE
Zeros(n) == [i \in 1..n |-> 0]
Fill(s, v) == [i \in 1..Len(s) |-> v]

RECURSIVE SumFrom(_, _, _)
\* sum of s[i] for lo <= i <= hi
SumFrom(s, lo, hi) ==
    IF lo > hi THEN 0
    ELSE IF lo = hi THEN s[lo]
    ELSE SumFrom(s, lo, (lo + hi) \div 2) + SumFrom(s, ((lo + hi) \div 2) + 1, hi)

\* x * pct / 100 rounded toward zero (a float product keeps the sign of x)
Scale(x, pct) == IF x >= 0 THEN (x * pct) \div 100 ELSE -(((-x) * pct) \div 100)

\* x > thr with x in hundredths and thr in millionths
Above(x, thr) == x * (Micro \div Q) > thr
AtLeast(x, thr) == x * (Micro \div Q) >= thr

----------------------------------------------------------------------------
(* Configuration (FeatureExtractor::Config) *)

DefaultConfig ==
    [ bass_range |-> [start_ratio |-> 0, end_ratio |-> 20],
      mid_range |-> [start_ratio |-> 20, end_ratio |-> 70],
      treble_range |-> [start_ratio |-> 70, end_ratio |-> 100],
      beat_detection_threshold |-> 350000,
      silence_threshold |-> 10,
      smoothing_attack |-> 35,
      smoothing_release |-> 8,
      band_flux_smoothing |-> 8,
      band_onset_sensitivity |-> 150,
      band_onset_min_flux |-> 100,
      global_onset_threshold |-> 1000,
      tempo_history_seconds |-> 4000,
      tempo_smoothing |-> 12,
      tempo_min_bpm |-> 60,
      tempo_max_bpm |-> 180,
      tempo_confidence_threshold |-> 100,
      beat_phase_realign |-> 25,
      beats_per_bar |-> 4,
      apply_a_weighting |-> TRUE,
      enable_spectral_flatness |-> TRUE,
      enable_chroma |-> TRUE,
      chroma_min_frequency |-> 32,
      chroma_max_frequency |-> 4186 ]

TempoTrackerState == [bpm |-> 0, beat_phase |-> 0, bar_phase |-> 0, confidence |-> 0]

\* the members as their default member initialisers leave them, before the
\* constructor body runs
Members(config) ==
    [ config_ |-> config,
      band_count_ |-> 0,
      weighting_curve_ |-> << >>,
      weighted_bins_ |-> << >>,
      weighted_band_buffer_ |-> << >>,
      band_envelopes_ |-> << >>,
      onset_history_ |-> << >>,
      onset_history_linear_ |-> << >>,
      band_flux_baseline_ |-> << >>,
      chroma_bin_map_ |-> << >>,
      onset_history_write_pos_ |-> 0,
      tempo_state_ |-> TempoTrackerState,
      bass_envelope_ |-> 0,
      mid_envelope_ |-> 0,
      treble_envelope_ |-> 0,
      total_envelope_ |-> 0,
      weighting_sample_rate_ |-> 0,
      weighting_fft_size_ |-> 0,
      chroma_sample_rate_ |-> 0,
      chroma_fft_size_ |-> 0,
      beat_counter_in_bar_ |-> 0 ]

----------------------------------------------------------------------------
(* Lifecycle: resize_onset_history, reset, ensure_band_capacity, prepare,
   set_config, constructor *)

\* a resize that leaves the write cursor where it was
resize_onset_history_keeps_cursor(e, desired_length) ==
    LET d == Clamp(IF desired_length = 0 THEN kMinOnsetHistoryLength ELSE desired_length,
                   kMinOnsetHistoryLength, kMaxOnsetHistoryLength)
    IN  IF Len(e.onset_history_) = d
        THEN [e EXCEPT !.onset_history_linear_ = IF Len(@) # d THEN Zeros(d) ELSE @]
        ELSE [e EXCEPT !.onset_history_ = Zeros(d), !.onset_history_linear_ = Zeros(d)]

resize_onset_history(e, desired_length) ==
    LET d0 == IF desired_length = 0 THEN kMinOnsetHistoryLength ELSE desired_length
        d == Clamp(d0, kMinOnsetHistoryLength, kMaxOnsetHistoryLength)
    IN  IF Len(e.onset_history_) = d
        THEN IF Len(e.onset_history_linear_) # d
             THEN [e EXCEPT !.onset_history_linear_ = Zeros(d)]
             ELSE e
        ELSE [e EXCEPT !.onset_history_ = Zeros(d),
                       !.onset_history_linear_ = Zeros(d),
                       !.onset_history_write_pos_ = 0]

\* faulty variant, to test the properties: a reset that keeps the smoothed energies and the flux baselines
reset_keeps_envelopes(e) ==
    LET e1 == [e EXCEPT !.weighted_band_buffer_ = Fill(@, 0),
                        !.weighted_bins_ = Fill(@, 0)]
        e2 == IF Len(e1.onset_history_) = 0
              THEN resize_onset_history(e1, kDefaultOnsetHistoryLength)
              ELSE [e1 EXCEPT !.onset_history_ = Fill(@, 0),
                              !.onset_history_linear_ = Zeros(Len(e1.onset_history_))]
    IN  [e2 EXCEPT !.onset_history_write_pos_ = 0,
                   !.tempo_state_ = TempoTrackerState,
                   !.beat_counter_in_bar_ = 0,
                   !.weighting_sample_rate_ = 0,
                   !.weighting_fft_size_ = 0,
                   !.chroma_sample_rate_ = 0,
                   !.chroma_fft_size_ = 0,
                   !.chroma_bin_map_ = << >>]

reset(e) ==
    LET e1 == [e EXCEPT !.band_envelopes_ = Fill(@, 0),
                        !.weighted_band_buffer_ = Fill(@, 0),
                        !.weighted_bins_ = Fill(@, 0),
                        !.band_flux_baseline_ = Fill(@, 0)]
        e2 == IF Len(e1.onset_history_) = 0
              THEN resize_onset_history(e1, kDefaultOnsetHistoryLength)
              ELSE [e1 EXCEPT !.onset_history_ = Fill(@, 0),
                              !.onset_history_linear_ = Zeros(Len(e1.onset_history_))]
    IN  [e2 EXCEPT !.onset_history_write_pos_ = 0,
                   !.tempo_state_ = TempoTrackerState,
                   !.beat_counter_in_bar_ = 0,
                   !.bass_envelope_ = 0,
                   !.mid_envelope_ = 0,
                   !.treble_envelope_ = 0,
                   !.total_envelope_ = 0,
                   !.weighting_sample_rate_ = 0,
                   !.weighting_fft_size_ = 0,
                   !.chroma_sample_rate_ = 0,
                   !.chroma_fft_size_ = 0,
                   !.chroma_bin_map_ = << >>]

\* faulty variant, to test the properties: the flux baselines are not re-sized with the other buffers
ensure_band_capacity_keeps_baseline(e, band_count) ==
    [e EXCEPT !.band_count_ = band_count,
              !.band_envelopes_ = Zeros(band_count),
              !.weighted_band_buffer_ = Zeros(band_count)]

ensure_band_capacity(e, band_count) ==
    [e EXCEPT !.band_count_ = band_count,
              !.band_envelopes_ = Zeros(band_count),
              !.weighted_band_buffer_ = Zeros(band_count),
              !.band_flux_baseline_ = Zeros(band_count)]

prepare(e, band_count) == reset(ensure_band_capacity(e, band_count))

\* a set_config that stores the configuration and resets nothing
set_config_without_reset(e, config) == [e EXCEPT !.config_ = config]

set_config(e, config) == reset([e EXCEPT !.config_ = config])

FeatureExtractor(config) == reset(Members(config))

----------------------------------------------------------------------------
(* Float rounding on the phase grid.  Phases are multiples of 1/PhaseUnits,
   the spacing of floats in [0.5, 1).  A float in [1, 2) is a multiple of
   2/PhaseUnits, one in [2, 4) a multiple of 4/PhaseUnits, and so on: a sum
   that leaves [0, 1) is rounded to that spacing, ties to the even
   significand, as IEEE-754 addition does. *)

RECURSIVE Spacing(_, _)
Spacing(x, s) == IF x < s * PhaseUnits THEN s ELSE Spacing(x, 2 * s)

RoundToEven(x, s) ==
    LET q == x \div s
        r == x % s
    IN  IF 2 * r < s THEN q * s
        ELSE IF 2 * r > s THEN (q + 1) * s
        ELSE IF q % 2 = 0 THEN q * s ELSE (q + 1) * s

FloatRound(x) == RoundToEven(x, Spacing(x, 1))

\* x / d rounded to the nearest grid point, ties to even
FloatDiv(x, d) ==
    LET q == x \div d
        r == x % d
    IN  IF 2 * r < d THEN q
        ELSE IF 2 * r > d THEN q + 1
        ELSE IF q % 2 = 0 THEN q ELSE q + 1

\* (static_cast<float>(beat_counter) + beat_phase) / per_bar, clamped to [0, 1]
BarPhase(counter, beat_phase, per_bar) ==
    Clamp(FloatDiv(FloatRound(counter * PhaseUnits + beat_phase), per_bar), 0, PhaseUnits)

\* (bpm / 60) * frame_period in grid units: bpm in milli-bpm, period in ms
BeatsAdvanced(bpm, frame_period) ==
    LET micro_beats == (bpm * frame_period) \div 60
    IN  (micro_beats * PhaseUnits + (Micro \div 2)) \div Micro

----------------------------------------------------------------------------
(* Tempo tracking: FeatureExtractor::update_tempo_tracking *)

\* faulty variant, to test the properties: the buffer copied from its start
Linearize_from_start(hist, write_pos) ==
    [i \in 1..Len(hist) |-> hist[i]]

\* the time-ordered copy of the circular buffer (oldest first)
Linearize(hist, write_pos) ==
    [i \in 1..Len(hist) |-> hist[((write_pos + (i - 1)) % Len(hist)) + 1]]

RECURSIVE LagProducts(_, _, _, _, _)
\* sum over i in [lag, history_size) of (lin[i]-mean)*(lin[i-lag]-mean), times N*N
LagProducts(lin, total, lag, lo, hi) ==
    IF lo > hi THEN 0
    ELSE IF lo = hi THEN (Len(lin) * lin[lo] - total) * (Len(lin) * lin[lo - lag] - total)
    ELSE LagProducts(lin, total, lag, lo, (lo + hi) \div 2)
             + LagProducts(lin, total, lag, ((lo + hi) \div 2) + 1, hi)

\* the mean-subtracted autocorrelation score of one lag, in (hundredths/N)^2
LagScore(lin, total, lag) ==
    LET sample_count == Len(lin) - lag
    IN  The({ IF sample_count > 0 THEN score \div sample_count ELSE score
              : score \in {LagProducts(lin, total, lag, lag + 1, Len(lin))} })

\* faulty variant, to test the properties: a score that equals the best replaces it
Better_or_equal(score, lag, best) ==
    IF score >= best.score THEN [score |-> score, lag |-> lag] ELSE best

\* lines 531-536: a strictly greater score replaces the best so far
Better(score, lag, best) ==
    IF score > best.score THEN [score |-> score, lag |-> lag] ELSE best

RECURSIVE SearchLags(_, _, _, _, _)
\* the loop over lag: best keeps [score, lag] of the first strictly best lag
SearchLags(lin, total, lag, max_lag, best) ==
    IF lag > max_lag THEN best
    ELSE The({ SearchLags(lin, total, lag + 1, max_lag, next)
               : next \in {The({ Better(score, lag, best) : score \in {LagScore(lin, total, lag)} })} })

\* the lag range searched for a frame period, from tempo_min_bpm/tempo_max_bpm
LagRange(config, frame_period, history_size) ==
    LET min_bpm == Min(config.tempo_min_bpm, config.tempo_max_bpm)
        max_bpm == Max(config.tempo_min_bpm, config.tempo_max_bpm)
        lo0 == IF max_bpm > 0 THEN 60000 \div (max_bpm * frame_period) ELSE 0
        hi0 == CeilDiv(60000, Max(min_bpm, 1) * frame_period)
        min_lag == Max(1, Min(lo0, hi0))
        max_lag0 == Max(min_lag, Max(lo0, hi0))
        max_lag == IF max_lag0 >= history_size THEN history_size - 1 ELSE max_lag0
    IN  [min_lag |-> min_lag, max_lag |-> max_lag, searched |-> max_bpm > 0]

\* lines 495, 497 and 513: the lags the loop visits, none when it is skipped
SearchedLags(config, frame_period, history_size) ==
    LET range == LagRange(config, frame_period, history_size)
    IN  IF history_size >= 8 /\ range.searched /\ range.max_lag > range.min_lag
        THEN range.min_lag..range.max_lag
        ELSE {}

\* raw score (hundredths/N)^2 to millionths
ScoreMicro(score, history_size) == (score * 100) \div (history_size * history_size)

\* lines 492-539: [lag, tempo_candidate, best_score]
TempoCandidate(config, lin, frame_period) ==
    LET history_size == Len(lin)
        range == LagRange(config, frame_period, history_size)
        none == [score |-> 0, lag |-> 0]
    IN  The({ [ lag |-> best.lag,
                tempo_candidate |-> IF best.lag > 0 THEN 60000000 \div (best.lag * frame_period) ELSE 0,
                best_score |-> ScoreMicro(best.score, history_size) ]
              : best \in {IF SearchedLags(config, frame_period, history_size) # {}
                          THEN The({ SearchLags(lin, total, range.min_lag, range.max_lag, none)
                                     : total \in {SumFrom(lin, 1, history_size)} })
                          ELSE none} })

\* lines 456-467: the history length for a frame period
DesiredLength(config, frame_period) ==
    LET window == Max(config.tempo_history_seconds, frame_period)
        frames_needed == Clamp(window \div frame_period, kMinOnsetHistoryLength, kMaxOnsetHistoryLength)
    IN  Max(kMinOnsetHistoryLength, frames_needed)

\* line 541: is the candidate taken
Qualifies(config, cand) ==
    cand.tempo_candidate > 0 /\ cand.best_score > config.tempo_confidence_threshold

\* faulty variant, to test the properties: the confidence decays but bpm keeps its value
TempoLockHoldsBpm(config, ts, cand) ==
    IF Qualifies(config, cand)
    THEN LET smoothing == Clamp(config.tempo_smoothing, 0, 100)
         IN  [ts EXCEPT !.bpm = IF ts.bpm <= 0 THEN cand.tempo_candidate
                                ELSE ts.bpm + Scale(cand.tempo_candidate - ts.bpm, smoothing),
                        !.confidence = cand.best_score]
    ELSE [ts EXCEPT !.confidence = Scale(ts.confidence, 95)]

\* lines 541-557: smoothing toward the candidate, or decay
TempoLock(config, ts, cand) ==
    IF Qualifies(config, cand)
    THEN LET smoothing == Clamp(config.tempo_smoothing, 0, 100)
         IN  [ts EXCEPT !.bpm = IF ts.bpm <= 0 THEN cand.tempo_candidate
                                ELSE ts.bpm + Scale(cand.tempo_candidate - ts.bpm, smoothing),
                        !.confidence = cand.best_score]
    ELSE LET confidence == Scale(ts.confidence, 95)
             decayed == Scale(ts.bpm, 98)
         IN  [ts EXCEPT !.confidence = confidence,
                        !.bpm = IF 2 * confidence < config.tempo_confidence_threshold
                                THEN (IF decayed < 1 THEN 0 ELSE decayed)
                                ELSE ts.bpm]

RECURSIVE CountWrapsUnbounded(_, _, _, _)
\* faulty variant, to test the properties: the counter is incremented without the modulo
CountWrapsUnbounded(counter, wraps, per_bar, downbeat) ==
    IF wraps = 0 THEN [counter |-> counter, downbeat |-> downbeat]
    ELSE CountWrapsUnbounded(counter + 1, wraps - 1, per_bar, downbeat \/ (counter + 1) % per_bar = 0)

RECURSIVE CountWrapsEveryWrap(_, _, _, _)
\* faulty variant, to test the properties: every wrap is reported as a downbeat
CountWrapsEveryWrap(counter, wraps, per_bar, downbeat) ==
    IF wraps = 0 THEN [counter |-> counter, downbeat |-> downbeat]
    ELSE CountWrapsEveryWrap((counter + 1) % per_bar, wraps - 1, per_bar, TRUE)

RECURSIVE CountWraps(_, _, _, _)
\* the loop of lines 566-571: [counter, downbeat] after `wraps` increments
CountWraps(counter, wraps, per_bar, downbeat) ==
    IF wraps = 0 THEN [counter |-> counter, downbeat |-> downbeat]
    ELSE LET next == (counter + 1) % per_bar
         IN  CountWraps(next, wraps - 1, per_bar, downbeat \/ next = 0)

\* lines 560-585: bpm > 0, advance the beat clock
PhaseAdvance(config, ts, counter, frame_period, beat_observed) ==
    The({ LET per_bar == Max(1, config.beats_per_bar)
              wraps == IF phase_accumulator >= PhaseUnits THEN phase_accumulator \div PhaseUnits ELSE 0
              clamped == Clamp(phase_accumulator - wraps * PhaseUnits, 0, PhaseUnits)
              realign == Clamp(config.beat_phase_realign, 0, 100)
              beat_phase == IF beat_observed
                            THEN Clamp(clamped - Scale(clamped, realign), 0, PhaseUnits)
                            ELSE clamped
          IN  The({ [ ts |-> [ts EXCEPT !.beat_phase = beat_phase,
                                        !.bar_phase = BarPhase(counted.counter, beat_phase, per_bar)],
                      counter |-> counted.counter,
                      downbeat |-> counted.downbeat,
                      wraps |-> wraps ]
                    : counted \in {CountWraps(counter, wraps, per_bar, FALSE)} })
          : phase_accumulator \in {FloatRound(ts.beat_phase + BeatsAdvanced(ts.bpm, frame_period))} })

\* faulty variant, to test the properties: putting the counter back to 0 is reported as a downbeat
PhaseClockDownbeatOnReset(config, ts, counter, frame_period, beat_observed) ==
    IF ts.bpm > 0
    THEN PhaseAdvance(config, ts, counter, frame_period, beat_observed)
    ELSE [ ts |-> [ts EXCEPT !.beat_phase = 0, !.bar_phase = 0],
           counter |-> 0, downbeat |-> TRUE, wraps |-> 0 ]

\* faulty variant, to test the properties: nothing is put back to 0 when bpm is 0
PhaseClockKeepsPhase(config, ts, counter, frame_period, beat_observed) ==
    IF ts.bpm > 0
    THEN PhaseAdvance(config, ts, counter, frame_period, beat_observed)
    ELSE [ ts |-> ts, counter |-> counter, downbeat |-> FALSE, wraps |-> 0 ]

\* lines 559-590: advance the beat clock, or put it back to 0 when bpm is 0
PhaseClock(config, ts, counter, frame_period, beat_observed) ==
    IF ts.bpm > 0
    THEN PhaseAdvance(config, ts, counter, frame_period, beat_observed)
    ELSE [ ts |-> [ts EXCEPT !.beat_phase = 0, !.bar_phase = 0],
           counter |-> 0, downbeat |-> FALSE, wraps |-> 0 ]

\* lines 445-454: frame_period <= 0
TrackDegenerate(e) ==
    LET per_bar == Max(1, e.config_.beats_per_bar)
        bar == BarPhase(e.beat_counter_in_bar_, e.tempo_state_.beat_phase, per_bar)
    IN  [ e |-> [e EXCEPT !.tempo_state_.bar_phase = bar],
          bpm |-> e.tempo_state_.bpm, beat_phase |-> e.tempo_state_.beat_phase,
          bar_phase |-> bar, downbeat |-> FALSE, wraps |-> 0, lag |-> 0, ran |-> FALSE,
          qualified |-> FALSE ]

\* lines 468-470: the history resized to the frame period's length
EnsureHistory(e, frame_period) ==
    LET desired_length == DesiredLength(e.config_, frame_period)
    IN  IF Len(e.onset_history_) = 0 \/ Len(e.onset_history_) # desired_length
        THEN resize_onset_history(e, desired_length)
        ELSE e

\* lines 480-490: write the onset strength at the cursor, advance the cursor,
\* refresh the time-ordered copy
WriteOnset(e, onset_strength) ==
    LET hist == [e.onset_history_ EXCEPT ![e.onset_history_write_pos_ + 1] = Max(onset_strength, 0)]
        write_pos == (e.onset_history_write_pos_ + 1) % Len(hist)
    IN  [e EXCEPT !.onset_history_ = hist,
                  !.onset_history_write_pos_ = write_pos,
                  !.onset_history_linear_ = Linearize(hist, write_pos)]

\* lines 456-596: frame_period > 0
TrackFrame(e, onset_strength, frame_period, beat_observed) ==
    The({ The({ The({
        [ e |-> [e1 EXCEPT !.tempo_state_ = clock.ts, !.beat_counter_in_bar_ = clock.counter],
          bpm |-> clock.ts.bpm, beat_phase |-> clock.ts.beat_phase,
          bar_phase |-> clock.ts.bar_phase, downbeat |-> clock.downbeat,
          wraps |-> clock.wraps, lag |-> cand.lag, ran |-> TRUE,
          qualified |-> Qualifies(e1.config_, cand) ]
        : clock \in {PhaseClock(e1.config_, TempoLock(e1.config_, e1.tempo_state_, cand),
                                e1.beat_counter_in_bar_, frame_period, beat_observed)} })
        : cand \in {TempoCandidate(e1.config_, e1.onset_history_linear_, frame_period)} })
        : e1 \in {WriteOnset(EnsureHistory(e, frame_period), onset_strength)} })

\* faulty variant, to test the properties: the onset is written into the history before the period is looked at
update_tempo_tracking_writes_first(e, onset_strength, frame_period, beat_observed) ==
    IF frame_period <= 0
    THEN TrackDegenerate(WriteOnset(e, onset_strength))
    ELSE TrackFrame(e, onset_strength, frame_period, beat_observed)

\* the whole of update_tempo_tracking: the engine after the call, the four
\* fields it writes into the bundle, and what it did (wraps, lag)
update_tempo_tracking(e, onset_strength, frame_period, beat_observed) ==
    IF frame_period <= 0
    THEN TrackDegenerate(e)
    ELSE TrackFrame(e, onset_strength, frame_period, beat_observed)

----------------------------------------------------------------------------
(* Perceptual weighting: compute_a_weighting_coefficient, update_weighting_curve.
   Weights are in thousandths (W = 1.0), frequencies in Hz. *)

W == 10 ^ 3

RECURSIVE SqrtSearch(_, _, _)
\* the largest r in [lo, hi] with r * r <= n
SqrtSearch(n, lo, hi) ==
    IF lo >= hi THEN lo
    ELSE The({ IF mid * mid <= n THEN SqrtSearch(n, mid, hi) ELSE SqrtSearch(n, lo, mid - 1)
               : mid \in {(lo + hi + 1) \div 2} })

\* floor(sqrt(n)) for 0 <= n < 2^30
ISqrt(n) == IF n <= 0 THEN 0 ELSE SqrtSearch(n, 0, 32767)

\* 10^(A(f)/20) = 10^(2/20) * ra, ra = 12200^2 f^4 / (term1 * term2 * term3),
\* evaluated as the product of the three ratios f^2/term1, f^2/term2 and
\* 12200^2/term3 so that every intermediate fits 32-bit integers;
\* 20.6^2 = 424, 107.7^2 = 11599, 737.9^2 = 544496, 10^0.1 = 1.259
compute_a_weighting_coefficient(frequency_hz) ==
    IF frequency_hz <= 0 THEN 0
    ELSE LET f2 == frequency_hz * frequency_hz
             r1 == W - (424 * W) \div (f2 + 424)
             a == W - (11599 * W) \div (f2 + 11599)
             b == W - (544496 * W) \div (f2 + 544496)
             r3 == (1488400 * W) \div ((f2 \div 100) + 1488400)
         IN  The({ Clamp((((((r1 * r2) \div W) * r3) \div W) * 1259) \div W, 0, 10 * W)
                   : r2 \in {ISqrt(a * b)} })

\* lines 334: no curve can be worked out for these arguments
NoSpectrum(fft_bin_count, sample_rate, fft_size) ==
    fft_bin_count = 0 \/ sample_rate <= 0 \/ fft_size = 0

\* faulty variant, to test the properties: the stored key is never recognised
WeightingKeyNeverMatches(e, fft_bin_count, sample_rate, fft_size) == FALSE

\* lines 341-342: the curve in store was computed for these arguments
WeightingKeyMatches(e, fft_bin_count, sample_rate, fft_size) ==
    /\ Len(e.weighting_curve_) = fft_bin_count
    /\ e.weighting_sample_rate_ = sample_rate
    /\ e.weighting_fft_size_ = fft_size

update_weighting_curve(e, fft_bin_count, sample_rate, fft_size) ==
    IF NoSpectrum(fft_bin_count, sample_rate, fft_size)
    THEN [e EXCEPT !.weighting_curve_ = [i \in 1..fft_bin_count |-> W],
                   !.weighting_sample_rate_ = sample_rate,
                   !.weighting_fft_size_ = fft_size]
    ELSE IF WeightingKeyMatches(e, fft_bin_count, sample_rate, fft_size)
    THEN e
    ELSE [e EXCEPT !.weighting_curve_ =
                       [i \in 1..fft_bin_count |->
                           compute_a_weighting_coefficient((sample_rate * (i - 1)) \div fft_size)],
                   !.weighting_sample_rate_ = sample_rate,
                   !.weighting_fft_size_ = fft_size]

----------------------------------------------------------------------------
(* Chroma mapping: update_chroma_mapping.  lround(69 + 12 log2(f / 440)) mod 12
   is found without logarithms: f is brought into the octave
   [427.47, 854.95) Hz around A4 by doubling or halving, and the semitone is
   the number of upper semitone borders 440 * 2^((k + 0.5) / 12) it has passed.
   Frequencies here are in hundredths of a Hz. *)

SemitoneBorders ==
    <<45289, 47982, 50836, 53858, 57061, 60454, 64049, 67857, 71892, 76167, 80696, 85495>>

RECURSIVE IntoOctave(_)
IntoOctave(centi_hz) ==
    IF centi_hz < 42747 THEN IntoOctave(centi_hz * 2)
    ELSE IF centi_hz >= 85495 THEN IntoOctave(centi_hz \div 2)
    ELSE centi_hz

\* pitch class of a frequency > 0 (A = 9)
PitchClass(frequency_hz) ==
    LET c == IntoOctave(frequency_hz * 100)
        k == Cardinality({j \in 1..12 : SemitoneBorders[j] <= c})
    IN  (9 + k) % 12

\* line 370: the map in store was computed for these arguments
ChromaKeyMatches(e, fft_bin_count, sample_rate, fft_size) ==
    /\ Len(e.chroma_bin_map_) = fft_bin_count
    /\ e.chroma_sample_rate_ = sample_rate
    /\ e.chroma_fft_size_ = fft_size

update_chroma_mapping(e, fft_bin_count, sample_rate, fft_size) ==
    IF NoSpectrum(fft_bin_count, sample_rate, fft_size)
    THEN [e EXCEPT !.chroma_bin_map_ = [i \in 1..fft_bin_count |-> UNMAPPED],
                   !.chroma_sample_rate_ = sample_rate,
                   !.chroma_fft_size_ = fft_size]
    ELSE IF ChromaKeyMatches(e, fft_bin_count, sample_rate, fft_size)
    THEN e
    ELSE LET lo == e.config_.chroma_min_frequency
             hi == e.config_.chroma_max_frequency
             min_frequency == Max(Min(lo, hi), 0)
             max_frequency == Max(Max(lo, hi), 0)
             Map(bin) ==
                 LET frequency == (sample_rate * bin) \div fft_size
                 IN  IF min_frequency >= max_frequency THEN UNMAPPED
                     ELSE IF frequency < min_frequency \/ frequency > max_frequency THEN UNMAPPED
                     ELSE IF frequency <= 0 THEN UNMAPPED
                     ELSE PitchClass(frequency)
         IN  [e EXCEPT !.chroma_bin_map_ = [i \in 1..fft_bin_count |-> Map(i - 1)],
                       !.chroma_sample_rate_ = sample_rate,
                       !.chroma_fft_size_ = fft_size]

----------------------------------------------------------------------------
(* Band helpers: resolve_band_indices, compute_average_energy, apply_envelope,
   compute_spectral_centroid.  Band indices are 0-based half-open [start, end)
   as in the code; sequences are 1-based. *)

\* a resolution that leaves a start at the band count where it is
resolve_band_indices_start_unbounded(band_count, range) ==
    IF band_count = 0 THEN [start |-> 0, end |-> 0]
    ELSE LET clamped_start == Clamp(range.start_ratio, 0, 100)
             clamped_end == Clamp(range.end_ratio, clamped_start, 100)
             start == (clamped_start * band_count) \div 100
         IN  [start |-> start,
              end |-> Clamp(CeilDiv(clamped_end * band_count, 100), start + 1, band_count)]

resolve_band_indices(band_count, range) ==
    IF band_count = 0 THEN [start |-> 0, end |-> 0]
    ELSE LET clamped_start == Clamp(range.start_ratio, 0, 100)
             clamped_end == Clamp(range.end_ratio, clamped_start, 100)
             start0 == (clamped_start * band_count) \div 100
             end0 == CeilDiv(clamped_end * band_count, 100)
             start == IF start0 >= band_count THEN band_count - 1 ELSE start0
         IN  [start |-> start, end |-> Clamp(end0, start + 1, band_count)]

\* faulty variant, to test the properties: negative values enter the average
compute_average_energy_signed(bands, start, end) ==
    IF Len(bands) = 0 \/ start >= Len(bands) THEN 0
    ELSE LET stop == Min(end, Len(bands))
         IN  IF stop <= start THEN 0
             ELSE SumFrom(bands, start + 1, stop) \div (stop - start)

compute_average_energy(bands, start, end) ==
    IF Len(bands) = 0 \/ start >= Len(bands) THEN 0
    ELSE LET stop == Min(end, Len(bands))
         IN  IF stop <= start THEN 0
             ELSE SumFrom([i \in 1..Len(bands) |-> Max(bands[i], 0)], start + 1, stop)
                      \div (stop - start)

\* one attack/release step of an envelope toward max(target, 0)
\* an envelope that rises at the release rate as well
apply_envelope_release_only(config, target, state) ==
    state + Scale(Max(target, 0) - state, config.smoothing_release)

apply_envelope(config, target, state) ==
    LET t == Max(target, 0)
        alpha == IF t > state THEN config.smoothing_attack ELSE config.smoothing_release
    IN  state + Scale(t - state, alpha)

\* in hundredths of the band axis
compute_spectral_centroid(bands, total_energy_sum) ==
    IF Len(bands) = 0 \/ total_energy_sum <= 0 THEN 0
    ELSE LET weighted == SumFrom([i \in 1..Len(bands) |-> Max(bands[i], 0) * (2 * i - 1)], 1, Len(bands))
         IN  IF weighted <= 0 THEN 0
             ELSE Clamp((weighted * Q) \div (2 * Len(bands) * total_energy_sum), 0, Q)

----------------------------------------------------------------------------
(* process, in the order of the code *)

NoFrame ==
    [ fft_magnitudes |-> << >>, band_bin_ranges |-> << >>,
      instantaneous_band_energies |-> << >>, smoothed_band_energies |-> << >>,
      band_flux |-> << >>, sample_rate |-> 0, frame_period |-> 0, beat_strength |-> 0 ]

\* no range was resolved
NoRange == [start |-> 0, end |-> 0]

\* AudioFeatures{} : every field at its default
NoFeatures ==
    [ bass_energy |-> 0, mid_energy |-> 0, treble_energy |-> 0, total_energy |-> 0,
      bass_envelope |-> 0, mid_envelope |-> 0, treble_envelope |-> 0,
      bass_energy_instantaneous |-> 0, mid_energy_instantaneous |-> 0,
      treble_energy_instantaneous |-> 0, total_energy_instantaneous |-> 0,
      beat_detected |-> FALSE, beat_strength |-> 0,
      bass_beat |-> FALSE, mid_beat |-> FALSE, treble_beat |-> FALSE,
      spectral_centroid |-> 0, spectral_flatness |-> 0,
      chroma |-> [pc \in 0..11 |-> 0], chroma_available |-> FALSE,
      bpm |-> 0, beat_phase |-> 0, bar_phase |-> 0, downbeat |-> FALSE,
      band_flux |-> << >> ]

ChromaScale == 10 ^ 4

\* The float format has a largest finite value (FLT_MAX); a conversion or a
\* sum beyond it gives +infinity.  The model's format is scaled down: its
\* largest finite value is FloatMax (in units of 1.0), so that a magnitude
\* that is itself finite can have a square that is not, as 1e20f has in the
\* build.  Infinity and NaN stand for the two special values; arithmetic on
\* them is written out where the code can produce them.
FloatMax == 20
Infinity == 2 ^ 30
NaN == -(2 ^ 30)

\* static_cast<float>(x) for an energy x >= 0 (squared hundredths)
ToFloat(x) == IF x > FloatMax * Q * Q THEN Infinity ELSE x

\* lines 74-82 and 130-136: does the source's band count differ, and the
\* engine after the prepare() this forces
can_apply_weighting(f) ==
    Len(f.fft_magnitudes) > 0 /\ Len(f.band_bin_ranges) > 0 /\ f.sample_rate > 0

\* faulty variant, to test the properties: the smoothed bands are preferred to the instantaneous ones
SourceBandsSmoothedFirst(f) ==
    IF Len(f.smoothed_band_energies) > 0 THEN f.smoothed_band_energies
    ELSE f.instantaneous_band_energies

SourceBands(f) ==
    IF Len(f.instantaneous_band_energies) > 0 THEN f.instantaneous_band_energies
    ELSE f.smoothed_band_energies

ResolvedBandCount(f) ==
    IF can_apply_weighting(f) THEN Len(f.band_bin_ranges) ELSE Len(SourceBands(f))

\* faulty variant, to test the properties: the buffers are resized, the engine is not reset
PrepareIfResized_without_reset(e, band_count) ==
    IF e.band_count_ # band_count THEN ensure_band_capacity(e, band_count) ELSE e

PrepareIfResized(e, band_count) ==
    IF e.band_count_ # band_count THEN prepare(e, band_count) ELSE e

\* lines 84-126: the weighted bins and the RMS of each band's bin range
WeightedBands(e, f) ==
    The({ LET fft_bin_count == Len(f.fft_magnitudes)
              weighted_bins ==
                  [i \in 1..fft_bin_count |->
                      (f.fft_magnitudes[i] * (IF i <= Len(e1.weighting_curve_) THEN e1.weighting_curve_[i] ELSE W)) \div W]
              resolved_count == Min(e1.band_count_, Len(f.band_bin_ranges))
              Rms(band) ==
                  LET start == Min(f.band_bin_ranges[band][1], fft_bin_count)
                      end == Min(f.band_bin_ranges[band][2], fft_bin_count)
                  IN  IF end <= start THEN 0
                      ELSE ISqrt(SumFrom([i \in 1..fft_bin_count |-> weighted_bins[i] * weighted_bins[i]],
                                         start + 1, end) \div (end - start))
          IN  [e1 EXCEPT !.weighted_bins_ = weighted_bins,
                         !.weighted_band_buffer_ =
                             [band \in 1..e1.band_count_ |-> IF band <= resolved_count THEN Rms(band) ELSE 0]]
          : e1 \in {update_weighting_curve(e, Len(f.fft_magnitudes), f.sample_rate,
                                           IF Len(f.fft_magnitudes) > 0 THEN (Len(f.fft_magnitudes) - 1) * 2 ELSE 0)} })

\* lines 143-150: the per-band envelopes
BandEnvelopes(config, envelopes, bands) ==
    [i \in 1..Len(envelopes) |->
        IF i <= Len(bands) THEN apply_envelope(config, bands[i], envelopes[i]) ELSE envelopes[i]]

\* lines 229-267: [chroma, chroma_available] and the engine with its map updated
Chroma(e, f) ==
    IF e.config_.enable_chroma /\ can_apply_weighting(f) /\ Len(e.weighted_bins_) > 0
    THEN The({
         LET usable_bins == Min(Len(e1.weighted_bins_), Len(e1.chroma_bin_map_))
             Energy(bin) ==
                 IF e1.chroma_bin_map_[bin] >= 12 \/ e1.weighted_bins_[bin] <= 0 THEN 0
                 ELSE e1.weighted_bins_[bin] * e1.weighted_bins_[bin]
             Acc(pc) == SumFrom([bin \in 1..usable_bins |->
                                    IF e1.chroma_bin_map_[bin] = pc THEN Energy(bin) ELSE 0], 1, usable_bins)
             \* the float accumulator of a pitch class times the normalisation
             \* (which underflows to 0 only for totals far beyond those fed here)
             Share(pc, total_energy) ==
                 The({ IF accumulator = Infinity THEN Infinity
                       ELSE (accumulator * ChromaScale) \div total_energy
                       : accumulator \in {ToFloat(Acc(pc))} })
         IN  The({ IF total_energy > 0
                   THEN [e |-> e1, chroma |-> [pc \in 0..11 |-> Share(pc, total_energy)],
                         chroma_available |-> TRUE]
                   ELSE [e |-> e1, chroma |-> [pc \in 0..11 |-> 0], chroma_available |-> FALSE]
                   : total_energy \in {SumFrom([bin \in 1..usable_bins |-> Energy(bin)], 1, usable_bins)} })
         : e1 \in {update_chroma_mapping(e, Len(e.weighted_bins_), f.sample_rate,
                                         (Len(e.weighted_bins_) - 1) * 2)} })
    ELSE [e |-> e, chroma |-> [pc \in 0..11 |-> 0], chroma_available |-> FALSE]

\* lines 271-306: the flux array has the engine's band count
OnsetMatched(e, band_flux, bass, mid, treble) ==
    LET config == e.config_
        n == e.band_count_
        base0 == IF Len(e.band_flux_baseline_) # n THEN Zeros(n) ELSE e.band_flux_baseline_
        flux_alpha == Clamp(config.band_flux_smoothing, 0, 100)
        baseline == [i \in 1..n |-> base0[i] + Scale(Max(band_flux[i], 0) - base0[i], flux_alpha)]
        aggregated_excess ==
            SumFrom([i \in 1..n |-> Max(0, Max(band_flux[i], 0) - baseline[i])], 1, n)
        onset_strength == aggregated_excess \div n
        detect_band(r) ==
            IF r.start >= r.end THEN FALSE
            ELSE LET band_value == compute_average_energy(band_flux, r.start, r.end)
                     band_baseline == compute_average_energy(baseline, r.start, r.end)
                     threshold == Max(config.band_onset_min_flux,
                                      band_baseline * config.band_onset_sensitivity * ((Micro \div Q) \div 100))
                 IN  Above(band_value, threshold)
    IN  [ baseline |-> baseline, onset_strength |-> onset_strength, matched |-> TRUE,
          aggregated_onset |-> Above(onset_strength, config.global_onset_threshold),
          bass_beat |-> detect_band(bass), mid_beat |-> detect_band(mid),
          treble_beat |-> detect_band(treble) ]

\* faulty variant, to test the properties: a flux array of the wrong size clears the baselines
OnsetDetectClearsBaseline(e, band_flux, bass, mid, treble) ==
    IF Len(band_flux) > 0 /\ Len(band_flux) = e.band_count_
    THEN OnsetMatched(e, band_flux, bass, mid, treble)
    ELSE [ baseline |-> Zeros(Len(e.band_flux_baseline_)), onset_strength |-> 0, matched |-> FALSE,
           aggregated_onset |-> FALSE,
           bass_beat |-> FALSE, mid_beat |-> FALSE, treble_beat |-> FALSE ]

\* lines 269-312: [baselines, onset_strength, aggregated_onset, bass, mid, treble]
OnsetDetect(e, band_flux, bass, mid, treble) ==
    IF Len(band_flux) > 0 /\ Len(band_flux) = e.band_count_
    THEN OnsetMatched(e, band_flux, bass, mid, treble)
    ELSE [ baseline |-> e.band_flux_baseline_, onset_strength |-> 0, matched |-> FALSE,
           aggregated_onset |-> FALSE,
           bass_beat |-> FALSE, mid_beat |-> FALSE, treble_beat |-> FALSE ]

\* lines 74-136: the engine once the frame's band count is resolved and, where
\* the frame carries a spectrum, the weighted bands are computed
Banded(e, f) ==
    IF can_apply_weighting(f)
    THEN WeightedBands(PrepareIfResized(e, ResolvedBandCount(f)), f)
    ELSE PrepareIfResized(e, ResolvedBandCount(f))

\* lines 127-132: the bands the call works on
BandsOf(e, f) == IF can_apply_weighting(f) THEN e.weighted_band_buffer_ ELSE SourceBands(f)

RECURSIVE PowerAtMost(_, _, _)
\* r ^ n <= x, for r >= 0, n >= 0, x >= 0, without forming r ^ n
PowerAtMost(r, n, x) ==
    IF n = 0 THEN 1 <= x
    ELSE IF r = 0 THEN TRUE
    ELSE PowerAtMost(r, n - 1, x \div r)

RECURSIVE RootSearch(_, _, _, _)
\* the largest r in [lo, hi] with r ^ n <= x
RootSearch(x, n, lo, hi) ==
    IF lo >= hi THEN lo
    ELSE The({ IF PowerAtMost(mid, n, x) THEN RootSearch(x, n, mid, hi) ELSE RootSearch(x, n, lo, mid - 1)
               : mid \in {(lo + hi + 1) \div 2} })

RECURSIVE ProductFrom(_, _)
ProductFrom(s, i) == IF i > Len(s) THEN 1 ELSE s[i] * ProductFrom(s, i + 1)

\* lines 202-224: geometric mean over arithmetic mean of the bins, each
\* floored at 1e-12, in hundredths.  A bin at the floor takes the geometric
\* mean of the spectra fed here below the grid, so it reads 0; the
\* arithmetic mean of bins all at the floor does not exceed kEpsilon.
Flatness(bins) ==
    LET count == Len(bins)
        linear_sum == SumFrom([i \in 1..count |-> Max(bins[i], 0)], 1, count)
    IN  IF count = 0 \/ linear_sum = 0 THEN 0
        ELSE IF \E i \in 1..count : bins[i] <= 0 THEN 0
        ELSE The({ Clamp((Q * count * geometric_mean) \div linear_sum, 0, Q)
                   : geometric_mean \in {The({ RootSearch(product, count, 0, product)
                                               : product \in {ProductFrom(bins, 1)} })} })

\* lines 194-227: e is the engine once the weighted bins are written
SpectralFlatness(e, f) ==
    IF ~e.config_.enable_spectral_flatness THEN 0
    ELSE IF can_apply_weighting(f) /\ Len(e.weighted_bins_) > 0 THEN Flatness(e.weighted_bins_)
    ELSE IF Len(f.fft_magnitudes) > 0 THEN Flatness(f.fft_magnitudes)
    ELSE 0

\* lines 143-192: envelopes, the three ranges, their levels, the centroid
Levels(e, f) ==
    LET config == e.config_
        bands == BandsOf(e, f)
        band_count == Len(bands)
        envelopes == BandEnvelopes(config, e.band_envelopes_, bands)
        bass == resolve_band_indices(band_count, config.bass_range)
        mid == resolve_band_indices(band_count, config.mid_range)
        treble == resolve_band_indices(band_count, config.treble_range)
        bass_instant == compute_average_energy(bands, bass.start, bass.end)
        mid_instant == compute_average_energy(bands, mid.start, mid.end)
        treble_instant == compute_average_energy(bands, treble.start, treble.end)
        bass_envelope == apply_envelope(config, bass_instant, e.bass_envelope_)
        mid_envelope == apply_envelope(config, mid_instant, e.mid_envelope_)
        treble_envelope == apply_envelope(config, treble_instant, e.treble_envelope_)
        total_instant == SumFrom([i \in 1..band_count |-> Max(bands[i], 0)], 1, band_count) \div band_count
        total_envelope == apply_envelope(config, total_instant, e.total_envelope_)
        smoothed_total_sum == SumFrom([i \in 1..Len(envelopes) |-> Max(envelopes[i], 0)], 1, Len(envelopes))
    IN  [ e |-> [e EXCEPT !.band_envelopes_ = envelopes,
                          !.bass_envelope_ = bass_envelope,
                          !.mid_envelope_ = mid_envelope,
                          !.treble_envelope_ = treble_envelope,
                          !.total_envelope_ = total_envelope],
          bass |-> bass, mid |-> mid, treble |-> treble,
          bass_instant |-> bass_instant, mid_instant |-> mid_instant,
          treble_instant |-> treble_instant, total_instant |-> total_instant,
          bass_envelope |-> bass_envelope, mid_envelope |-> mid_envelope,
          treble_envelope |-> treble_envelope, total_envelope |-> total_envelope,
          centroid |-> IF Above(smoothed_total_sum, config.silence_threshold)
                       THEN compute_spectral_centroid(envelopes, smoothed_total_sum)
                       ELSE 0,
          flatness |-> SpectralFlatness(e, f) ]

\* lines 64-67: the bundle as it is returned when the frame has no band
\* a zero-band return that reports the engine's smoothed levels
EarlyWithEnvelopes(e, f) ==
    [NoFeatures EXCEPT !.band_flux = f.band_flux,
                       !.beat_strength = f.beat_strength,
                       !.beat_detected = AtLeast(f.beat_strength, e.config_.beat_detection_threshold),
                       !.bass_energy = e.bass_envelope_,
                       !.mid_energy = e.mid_envelope_,
                       !.treble_energy = e.treble_envelope_,
                       !.total_energy = e.total_envelope_]

Early(e, f) ==
    [NoFeatures EXCEPT !.band_flux = f.band_flux,
                       !.beat_strength = f.beat_strength,
                       !.beat_detected = AtLeast(f.beat_strength, e.config_.beat_detection_threshold)]

\* faulty variant, to test the properties: the aggregated onset is left out of the OR
BeatDetectedBandsOnly(e, f, onset) ==
    \/ AtLeast(f.beat_strength, e.config_.beat_detection_threshold)
    \/ onset.bass_beat \/ onset.mid_beat \/ onset.treble_beat

\* lines 314-315
BeatDetected(e, f, onset) ==
    \/ AtLeast(f.beat_strength, e.config_.beat_detection_threshold)
    \/ onset.aggregated_onset
    \/ onset.bass_beat \/ onset.mid_beat \/ onset.treble_beat

\* (bin count - 1) * 2, the FFT size the code derives from the bin count
FftSize(fft_bin_count) == IF fft_bin_count > 0 THEN (fft_bin_count - 1) * 2 ELSE 0

\* did the call run the loop of lines 346-357 (e is the engine at entry)
CurveComputed(e, f) ==
    /\ can_apply_weighting(f)
    /\ ~NoSpectrum(Len(f.fft_magnitudes), f.sample_rate, FftSize(Len(f.fft_magnitudes)))
    /\ ~WeightingKeyMatches(PrepareIfResized(e, ResolvedBandCount(f)),
                            Len(f.fft_magnitudes), f.sample_rate, FftSize(Len(f.fft_magnitudes)))

\* did the call run lines 374-410 (e is the engine when line 229 is reached)
MapComputed(e, f) ==
    /\ e.config_.enable_chroma /\ can_apply_weighting(f) /\ Len(e.weighted_bins_) > 0
    /\ ~NoSpectrum(Len(e.weighted_bins_), f.sample_rate, FftSize(Len(e.weighted_bins_)))
    /\ ~ChromaKeyMatches(e, Len(e.weighted_bins_), f.sample_rate, FftSize(Len(e.weighted_bins_)))

\* FeatureExtractor::process: the engine after the call, the returned bundle,
\* and a record of what the call did.
\* The steps are named from the last line up: banded, lv, chroma, onset, tempo.
process(e, f) ==
    The({
    IF Len(BandsOf(banded, f)) = 0
    THEN [ e |-> banded, features |-> Early(e, f),
           trace |-> [resized |-> e.band_count_ # ResolvedBandCount(f), band_count |-> 0,
                      matched |-> FALSE, onset_strength |-> 0, tempo_ran |-> FALSE,
                      wraps |-> 0, lag |-> 0, qualified |-> FALSE, lost |-> FALSE,
                      curve_computed |-> FALSE, map_computed |-> FALSE,
                      bass |-> NoRange, mid |-> NoRange, treble |-> NoRange, arg |-> << >>] ]
    ELSE The({ The({ The({ The({
         [ e |-> tempo.e,
           features |->
               [Early(e, f) EXCEPT !.bass_energy_instantaneous = lv.bass_instant,
                                   !.mid_energy_instantaneous = lv.mid_instant,
                                   !.treble_energy_instantaneous = lv.treble_instant,
                                   !.bass_energy = lv.bass_envelope,
                                   !.mid_energy = lv.mid_envelope,
                                   !.treble_energy = lv.treble_envelope,
                                   !.bass_envelope = lv.bass_envelope,
                                   !.mid_envelope = lv.mid_envelope,
                                   !.treble_envelope = lv.treble_envelope,
                                   !.total_energy_instantaneous = lv.total_instant,
                                   !.total_energy = lv.total_envelope,
                                   !.spectral_centroid = lv.centroid,
                                   !.spectral_flatness = lv.flatness,
                                   !.chroma = chroma.chroma,
                                   !.chroma_available = chroma.chroma_available,
                                   !.bass_beat = onset.bass_beat,
                                   !.mid_beat = onset.mid_beat,
                                   !.treble_beat = onset.treble_beat,
                                   !.beat_detected = BeatDetected(e, f, onset),
                                   !.bpm = tempo.bpm,
                                   !.beat_phase = tempo.beat_phase,
                                   !.bar_phase = tempo.bar_phase,
                                   !.downbeat = tempo.downbeat],
           trace |-> [resized |-> e.band_count_ # ResolvedBandCount(f),
                      band_count |-> Len(BandsOf(banded, f)),
                      matched |-> onset.matched,
                      onset_strength |-> onset.onset_strength, tempo_ran |-> tempo.ran,
                      wraps |-> tempo.wraps, lag |-> tempo.lag, qualified |-> tempo.qualified,
                      lost |-> chroma.e.tempo_state_.bpm > 0 /\ tempo.bpm = 0,
                      curve_computed |-> CurveComputed(e, f),
                      map_computed |-> MapComputed(lv.e, f),
                      bass |-> lv.bass, mid |-> lv.mid, treble |-> lv.treble, arg |-> << >>] ]
         : tempo \in {update_tempo_tracking([chroma.e EXCEPT !.band_flux_baseline_ = onset.baseline],
                                            onset.onset_strength, f.frame_period,
                                            BeatDetected(e, f, onset))} })
         : onset \in {OnsetDetect(chroma.e, f.band_flux, lv.bass, lv.mid, lv.treble)} })
         : chroma \in {Chroma(lv.e, f)} })
         : lv \in {Levels(banded, f)} })
    : banded \in {Banded(e, f)} })

----------------------------------------------------------------------------
(* The caller: which frames and which lifecycle calls it makes *)

MaxFrames == 6

\* beats_per_bar = 2 so that a bar closes within a few frames
Config2 == [DefaultConfig EXCEPT !.beats_per_bar = 2]
Config3 == [DefaultConfig EXCEPT !.beats_per_bar = 3, !.beat_phase_realign = 0]
Configs == {Config2, Config3}

\* the caller's plan: the kind of stream, the impulse period of a train, and
\* the parity of the blocks of silence delivered so far
Free == [kind |-> "free", period |-> 0, tick |-> 0]

NoTrace ==
    [resized |-> FALSE, band_count |-> 0, matched |-> FALSE, onset_strength |-> 0,
     tempo_ran |-> FALSE, wraps |-> 0, lag |-> 0, qualified |-> FALSE, lost |-> FALSE,
     curve_computed |-> FALSE, map_computed |-> FALSE,
     bass |-> NoRange, mid |-> NoRange, treble |-> NoRange, arg |-> << >>]

\* observer: wraps and downbeat frames since the last lifecycle call (run_*)
\* and since the beat counter was last put back to 0 other than by a wrap (bar_*)
NoCount == [run_wraps |-> 0, run_downbeats |-> 0, bar_wraps |-> 0, bar_downbeats |-> 0, multi |-> FALSE]

Count(c, r) ==
    LET d == IF r.features.downbeat THEN 1 ELSE 0
        per_bar == Max(1, r.e.config_.beats_per_bar)
        cleared == r.trace.resized \/ (r.trace.tempo_ran /\ r.e.tempo_state_.bpm = 0)
    IN  [ run_wraps |-> c.run_wraps + r.trace.wraps,
          run_downbeats |-> c.run_downbeats + d,
          bar_wraps |-> (IF cleared THEN 0 ELSE c.bar_wraps) + r.trace.wraps,
          bar_downbeats |-> (IF cleared THEN 0 ELSE c.bar_downbeats) + d,
          multi |-> (IF cleared THEN FALSE ELSE c.multi) \/ r.trace.wraps > per_bar ]

\* a freshly constructed engine, and the caller's plan for the stream
Start(config, stream) ==
    /\ eng = FeatureExtractor(config)
    /\ features = NoFeatures
    /\ op = "init"
    /\ frame = NoFrame
    /\ trace = NoTrace
    /\ frames = 0
    /\ since = NoCount
    /\ twin = << >>
    /\ member = << >> /\ player = << >> /\ watch = << >>
    /\ twin_features = NoFeatures
    /\ plan = stream

Init == \E c \in Configs : Start(c, Free)

\* a lifecycle call; the observer notes its argument
Lifecycle(name, e, arg) ==
    /\ eng' = e
    /\ op' = name
    /\ trace' = [NoTrace EXCEPT !.arg = arg]
    /\ since' = NoCount
    /\ UNCHANGED <<features, frame, frames, twin, twin_features, plan, stage>>

Returned(f, r) ==
    /\ eng' = r.e
    /\ features' = r.features
    /\ trace' = r.trace
    /\ frame' = f
    /\ since' = Count(since, r)
    /\ op' = "process"
    /\ frames' = frames + 1
    /\ UNCHANGED <<twin, twin_features, plan, stage>>

\* one process call on a frame
Process(f) == plan = Free /\ frames < MaxFrames /\ \E r \in {process(eng, f)} : Returned(f, r)

Reset == Lifecycle("reset", reset(eng), << >>)

Prepare == \E n \in {0, 2, 3} : Lifecycle("prepare", prepare(eng, n), n)

SetConfig == \E c \in Configs : Lifecycle("set_config", set_config(eng, c), c)

----------------------------------------------------------------------------
(* Spec: a stream whose band layout changes, with lifecycle calls in between *)

MaxCalls == 3

\* band energies from the DSP stage: none, two bands, three bands
Sources == {<< >>, <<50, 20>>, <<50, 20, 10>>}

\* flux arrays: none, two bands, three bands
Fluxes == {<< >>, <<100, 100>>, <<100, 100, 100>>}

BandFrame(source, flux) ==
    [NoFrame EXCEPT !.instantaneous_band_energies = source,
                    !.band_flux = flux,
                    !.frame_period = 250]

\* a 9-bin spectrum cut into three bands, sample rate 48000
SpectrumFrame(flux) ==
    [NoFrame EXCEPT !.fft_magnitudes = <<0, 100, 0, 0, 0, 0, 100, 0, 0>>,
                    !.band_bin_ranges = <<<<0, 3>>, <<3, 6>>, <<6, 9>>>>,
                    !.sample_rate = 48000,
                    !.band_flux = flux,
                    !.frame_period = 250]

\* a frame that carries band energies
Bands ==
    /\ plan = Free
    /\ frames < MaxCalls
    /\ \E source \in Sources, flux \in Fluxes :
           \E r \in {process(eng, BandFrame(source, flux))} : Returned(BandFrame(source, flux), r)

\* a frame that carries a spectrum
Spectrum ==
    /\ plan = Free
    /\ frames < MaxCalls
    /\ \E flux \in {<<100, 100>>, <<100, 100, 100>>} :
           \E r \in {process(eng, SpectrumFrame(flux))} : Returned(SpectrumFrame(flux), r)

Next == Bands \/ Spectrum \/ Prepare \/ Reset \/ SetConfig

Spec == Init /\ [][Next]_vars

----------------------------------------------------------------------------
(* SpecWeighting: two engines whose configurations differ only in
   apply_a_weighting, fed the same two-spike spectra *)

MaxSpectra == 10

\* the configuration of tests/feature_extractor_weighting_test.cpp
WeightedConfig ==
    [DefaultConfig EXCEPT !.smoothing_attack = 100, !.smoothing_release = 100,
                          !.chroma_max_frequency = 20000, !.apply_a_weighting = TRUE]
UnweightedConfig == [WeightedConfig EXCEPT !.apply_a_weighting = FALSE]

Pair == [kind |-> "pair", period |-> 0, tick |-> 0]

InitWeighting ==
    /\ eng = FeatureExtractor(WeightedConfig)
    /\ twin = FeatureExtractor(UnweightedConfig)
    /\ features = NoFeatures
    /\ twin_features = NoFeatures
    /\ op = "init"
    /\ frame = NoFrame
    /\ trace = NoTrace
    /\ frames = 0
    /\ since = NoCount
    /\ plan = Pair
    /\ member = << >> /\ player = << >> /\ watch = << >>

\* 9 bins (3000 Hz apart at 48000 Hz), one spike in the bass band and one in
\* the treble band
TwoSpikes(low, high, level) ==
    [NoFrame EXCEPT !.fft_magnitudes = [i \in 1..9 |-> IF i = low + 1 \/ i = high + 1 THEN level ELSE 0],
                    !.band_bin_ranges = <<<<0, 3>>, <<3, 6>>, <<6, 9>>>>,
                    !.sample_rate = 48000,
                    !.frame_period = 250]

\* the same frame through both engines
Both ==
    /\ plan = Pair
    /\ frames < MaxSpectra
    /\ \E low \in {1, 2}, high \in {6, 7, 8}, level \in {Q, 2 * Q} :
           \E f \in {TwoSpikes(low, high, level)} :
           \E r \in {process(eng, f)}, t \in {process(twin, f)} :
               /\ eng' = r.e
               /\ features' = r.features
               /\ trace' = r.trace
               /\ twin' = t.e
               /\ twin_features' = t.features
               /\ frame' = f
               /\ since' = Count(since, r)
               /\ op' = "process"
               /\ frames' = frames + 1
               /\ UNCHANGED <<plan, stage>>

NextWeighting == Both

SpecWeighting == InitWeighting /\ [][NextWeighting]_vars

----------------------------------------------------------------------------
(* SpecTempo: a stream with a fixed band layout; the caller varies the flux
   and the frame period *)

\* two bands; flux on both bands at the given level
TempoFrame(level, period) ==
    [NoFrame EXCEPT !.instantaneous_band_energies = <<50, 20>>,
                    !.band_flux = <<level, level>>,
                    !.frame_period = period]

FluxLevels == {0, 100}

\* a regular frame, 250 ms after the previous one
Tick == \E level \in FluxLevels : Process(TempoFrame(level, 250))

\* a frame with a degenerate frame period
Stall == \E period \in {0, -250} : Process(TempoFrame(0, period))

\* a late frame, a whole second after the previous one
Late == Process(TempoFrame(0, 1000))

NextTempo == Tick \/ Stall \/ Late \/ Reset

SpecTempo == Init /\ [][NextTempo]_vars

----------------------------------------------------------------------------
(* SpecSilence: a few frames of signal, then silence for ever.  The caller
   keeps calling process on every audio block, which is what the fairness
   condition says. *)

MaxWarm == 3

\* a configuration whose confidence threshold is 0
ConfigNoThreshold == [Config2 EXCEPT !.tempo_confidence_threshold = 0]
SilenceConfigs == {Config2, ConfigNoThreshold}

\* the sound card delivers one more block of silence
Block == plan' = [kind |-> "quiet", period |-> 0, tick |-> 1 - plan.tick]

InitSilence == \E c \in SilenceConfigs : Start(c, Free)

\* a frame of the signal before the silence
Warm ==
    /\ plan = Free
    /\ frames < MaxWarm
    /\ \E level \in FluxLevels :
           \E r \in {process(eng, TempoFrame(level, 250))} : Returned(TempoFrame(level, 250), r)

\* a frame of silence; from the first one on every frame is silent.  The
\* observer `since` and the frame count keep what the signal left.
Silent ==
    \E r \in {process(eng, TempoFrame(0, 250))} :
        /\ eng' = r.e
        /\ features' = r.features
        /\ trace' = r.trace
        /\ frame' = TempoFrame(0, 250)
        /\ op' = "process"
        /\ Block
        /\ UNCHANGED <<frames, since, twin, twin_features, stage>>

NextSilence == Warm \/ Silent

\* blocks keep coming, and process is called on each (Silent is the only
\* step that delivers one)
SpecSilence == InitSilence /\ [][NextSilence]_vars /\ WF_plan(Block)

----------------------------------------------------------------------------
(* SpecImpulse: a fresh engine fed an onset impulse train, one impulse every
   plan.period frames, at a constant frame period of 125 ms *)

MaxTrainFrames == 48

\* flux baseline smoothing 0, so that the onset strength is the flux itself
TrainConfig == [DefaultConfig EXCEPT !.band_flux_smoothing = 0]

\* 60 / (L * 0.125 s) is 160, 120, 96, 80 bpm: inside [60, 180]
TrainPeriods == 3..6

InitImpulse == \E L \in TrainPeriods : Start(TrainConfig, [kind |-> "train", period |-> L, tick |-> 0])

TrainFrame == TempoFrame(IF frames % plan.period = 0 THEN 100 ELSE 0, 125)

Train ==
    /\ plan.kind = "train"
    /\ frames < MaxTrainFrames
    /\ \E r \in {process(eng, TrainFrame)} : Returned(TrainFrame, r)

NextImpulse == Train

SpecImpulse == InitImpulse /\ [][NextImpulse]_vars

----------------------------------------------------------------------------
(* SpecBeat: a two-band stream in which the caller varies its own beat
   strength and the flux, under configurations that separate the three ways
   a beat is reported *)

MaxBeatFrames == 3

\* a global onset threshold below 0
ConfigEager == [Config2 EXCEPT !.global_onset_threshold = -1000]
\* a per-band floor no flux of the stream reaches: only the aggregate fires
ConfigBandsDeaf == [Config2 EXCEPT !.band_onset_min_flux = 5 * Micro]
BeatConfigs == {Config2, ConfigEager, ConfigBandsDeaf}

\* 0.34, 0.35 (the default threshold itself) and 0.40
BeatStrengths == {34, 35, 40}

\* no flux, flux of a three-band layout, silence, a spike in the low band
BeatFluxes == {<< >>, <<100, 100, 100>>, <<0, 0>>, <<100, 0>>}

BeatFrame(source, flux, strength) ==
    [NoFrame EXCEPT !.instantaneous_band_energies = source,
                    !.band_flux = flux,
                    !.beat_strength = strength,
                    !.frame_period = 250]

InitBeat == \E c \in BeatConfigs : Start(c, Free)

\* a frame of the two-band stream
Beat ==
    /\ frames < MaxBeatFrames
    /\ \E flux \in BeatFluxes, strength \in BeatStrengths :
           Process(BeatFrame(<<50, 20>>, flux, strength))

\* a frame that carries no band at all
Dropout ==
    /\ frames < MaxBeatFrames
    /\ \E strength \in BeatStrengths : Process(BeatFrame(<< >>, << >>, strength))

NextBeat == Beat \/ Dropout

SpecBeat == InitBeat /\ [][NextBeat]_vars

----------------------------------------------------------------------------
(* SpecSource: frames that carry any combination of a spectrum, bin ranges,
   a sample rate, instantaneous band energies and smoothed band energies *)

MaxSourceFrames == 3

\* what a frame says about its spectrum: nothing; magnitudes without ranges;
\* ranges without magnitudes; both without a sample rate; both with a
\* negative one; all three
SpectrumParts ==
    { [fft |-> << >>, ranges |-> << >>, sample_rate |-> 0],
      [fft |-> <<0, 100, 0, 0, 0, 0, 100, 0, 0>>, ranges |-> << >>, sample_rate |-> 48000],
      [fft |-> << >>, ranges |-> <<<<0, 3>>, <<3, 6>>, <<6, 9>>>>, sample_rate |-> 48000],
      [fft |-> <<0, 100, 0, 0, 0, 0, 100, 0, 0>>, ranges |-> <<<<0, 3>>, <<3, 6>>, <<6, 9>>>>, sample_rate |-> 0],
      [fft |-> <<0, 100, 0, 0, 0, 0, 100, 0, 0>>, ranges |-> <<<<0, 3>>, <<3, 6>>, <<6, 9>>>>, sample_rate |-> -48000],
      [fft |-> <<0, 100, 0, 0, 0, 0, 100, 0, 0>>, ranges |-> <<<<0, 3>>, <<3, 6>>, <<6, 9>>>>, sample_rate |-> 48000] }

\* two instantaneous bands, four smoothed bands (or two silent ones), or none of either
InstantaneousParts == {<< >>, <<50, 20>>}
SmoothedParts == {<< >>, <<30, 60, 90, 10>>, <<0, 0>>}

SourceFrame(part, instantaneous, smoothed) ==
    [NoFrame EXCEPT !.fft_magnitudes = part.fft,
                    !.band_bin_ranges = part.ranges,
                    !.sample_rate = part.sample_rate,
                    !.instantaneous_band_energies = instantaneous,
                    !.smoothed_band_energies = smoothed,
                    !.frame_period = 250]

InitSource == Start(DefaultConfig, Free)

Feed ==
    /\ frames < MaxSourceFrames
    /\ \E part \in SpectrumParts, instantaneous \in InstantaneousParts, smoothed \in SmoothedParts :
           Process(SourceFrame(part, instantaneous, smoothed))

NextSource == Feed \/ Reset

SpecSource == InitSource /\ [][NextSource]_vars

----------------------------------------------------------------------------
(* SpecCache: spectra of several sizes and sample rates, cut into two or
   three bands, with frames without a spectrum and lifecycle calls between *)

MaxCacheFrames == 3

\* the default chroma bounds, bounds that map other bins, and chroma off
ConfigHighChroma == [DefaultConfig EXCEPT !.chroma_min_frequency = 5000, !.chroma_max_frequency = 20000]
ConfigNoChroma == [DefaultConfig EXCEPT !.enable_chroma = FALSE]
CacheConfigs == {DefaultConfig, ConfigHighChroma, ConfigNoChroma}

\* [bin count, sample rate]: a one-bin spectrum has FFT size 0
SpectrumKeys == {<<1, 48000>>, <<9, 48000>>, <<9, 44100>>}

BinRanges(n) == IF n = 2 THEN <<<<0, 4>>, <<4, 9>>>> ELSE <<<<0, 3>>, <<3, 6>>, <<6, 9>>>>

\* a spectrum with a spike in its second and in its last bin
CacheFrame(bins, sample_rate, bands) ==
    [NoFrame EXCEPT !.fft_magnitudes = [i \in 1..bins |-> IF i = 2 \/ i = bins THEN 100 ELSE 0],
                    !.band_bin_ranges = BinRanges(bands),
                    !.sample_rate = sample_rate,
                    !.frame_period = 250]

InitCache == \E c \in CacheConfigs : Start(c, Free)

\* a frame with a spectrum
Analyse ==
    /\ frames < MaxCacheFrames
    /\ \E key \in SpectrumKeys, bands \in {2, 3} : Process(CacheFrame(key[1], key[2], bands))

\* a frame with three band energies and no spectrum
Plain ==
    /\ frames < MaxCacheFrames
    /\ Process(BandFrame(<<50, 20, 10>>, << >>))

Reconfigure == \E c \in CacheConfigs : Lifecycle("set_config", set_config(eng, c), c)

NextCache == Analyse \/ Plain \/ Reset \/ Prepare \/ Reconfigure

SpecCache == InitCache /\ [][NextCache]_vars

----------------------------------------------------------------------------
(* The consumer of the bundle: animations/band/feature_taps.cpp *)

\* compute_chroma_dominance: the peak chroma share over the sum of the shares
compute_chroma_dominance(bundle) ==
    IF ~bundle.chroma_available THEN 0
    ELSE LET clamped == [pc \in 0..11 |-> Max(bundle.chroma[pc], 0)]
             infinite == \E pc \in 0..11 : clamped[pc] = Infinity
             sum == IF infinite THEN Infinity ELSE SumFrom([i \in 1..12 |-> clamped[i - 1]], 1, 12)
             peak == CHOOSE v \in {clamped[pc] : pc \in 0..11} : \A pc \in 0..11 : clamped[pc] <= v
         IN  IF sum <= 0 THEN 0
             \* infinity / infinity is NaN, and std::clamp returns a NaN as it is
             ELSE IF infinite THEN NaN
             ELSE Clamp((peak * Q) \div sum, 0, Q)

\* build_feature_view, the fields read here
build_feature_view(bundle) ==
    [ chroma_available |-> bundle.chroma_available,
      chroma_dominance |-> compute_chroma_dominance(bundle),
      spectral_flatness |-> Clamp(bundle.spectral_flatness, 0, Q),
      total_energy |-> Max(bundle.total_energy, 0) ]

----------------------------------------------------------------------------
(* SpecSpectrum: spectra with up to three spikes (500, 2500 and 3500 Hz),
   among them a negative magnitude and a large one; band frames with negative
   energies and negative flux; frames whose spectrum comes without ranges *)

MaxSpectrumFrames == 2

\* smoothing coefficients at the two ends of [0, 1]
ConfigSnappy == [DefaultConfig EXCEPT !.smoothing_attack = 100, !.smoothing_release = 0]
SpectrumConfigs == {DefaultConfig, ConfigNoChroma, ConfigSnappy}

\* 9 bins 500 Hz apart (sample rate 8000), three bands
Spikes(low, mid, high) ==
    [NoFrame EXCEPT !.fft_magnitudes = <<0, low, 0, 0, 0, mid, 0, high, 0>>,
                    !.band_bin_ranges = BinRanges(3),
                    !.sample_rate = 8000,
                    !.frame_period = 250]

\* a spectrum without bin ranges, beside two instantaneous bands
Unranged(fft) ==
    [NoFrame EXCEPT !.fft_magnitudes = fft,
                    !.instantaneous_band_energies = <<50, 20>>,
                    !.sample_rate = 8000,
                    !.frame_period = 250]

InitSpectrum == \E c \in SpectrumConfigs : Start(c, Free)

\* a frame on the weighted path; 5.0 is the large magnitude
Spiked ==
    /\ frames < MaxSpectrumFrames
    /\ \E low \in {0, Q, -Q}, mid \in {0, Q, 5 * Q}, high \in {0, Q} : Process(Spikes(low, mid, high))

\* band energies and flux below 0
Signed ==
    /\ frames < MaxSpectrumFrames
    /\ \E source \in {<<-50, 20>>, <<-50, -20>>}, flux \in {<< >>, <<-100, 100>>} :
           Process(BandFrame(source, flux))

\* the flatness of the raw magnitudes
Raw ==
    /\ frames < MaxSpectrumFrames
    /\ \E fft \in {<<100, 100, 100>>, <<100, 50, 25>>, <<0, 100, 0>>} : Process(Unranged(fft))

NextSpectrum == Spiked \/ Signed \/ Raw

SpecSpectrum == InitSpectrum /\ [][NextSpectrum]_vars

----------------------------------------------------------------------------
(* SpecRanges: engines whose band ranges have ratios below 0, above 1 and in
   the wrong order, fed frames of one to six bands *)

MaxRangeFrames == 1

\* ratios in hundredths: -0.5, 0, 0.2, 0.5, 0.7, 1, 1.5
Ratios == {-50, 0, 20, 50, 70, 100, 150}

\* bass has the two ratios, mid has them swapped, treble keeps its default
ConfigRanges(a, b) ==
    [DefaultConfig EXCEPT !.bass_range = [start_ratio |-> a, end_ratio |-> b],
                          !.mid_range = [start_ratio |-> b, end_ratio |-> a]]

InitRanges == \E a \in Ratios, b \in Ratios : Start(ConfigRanges(a, b), Free)

\* a frame of n instantaneous bands
Resolve ==
    /\ frames < MaxRangeFrames
    /\ \E n \in 1..6 : Process(BandFrame([i \in 1..n |-> 10 * i], << >>))

NextRanges == Resolve

SpecRanges == InitRanges /\ [][NextRanges]_vars

----------------------------------------------------------------------------
(* SpecHistory: tempo windows of 8 s, 4 s and 0.1 s under frame periods of
   250 ms and 125 ms (and a degenerate one), with frames that carry no bands *)

MaxHistoryFrames == 3

ConfigLongWindow == [DefaultConfig EXCEPT !.tempo_history_seconds = 8000]
ConfigShortWindow == [DefaultConfig EXCEPT !.tempo_history_seconds = 100]
HistoryConfigs == {DefaultConfig, ConfigLongWindow, ConfigShortWindow}

InitHistory == \E c \in HistoryConfigs : Start(c, Free)

\* a frame of two bands that reaches the tempo tracker
Tracked ==
    /\ frames < MaxHistoryFrames
    /\ \E level \in FluxLevels, period \in {250, 125, 0} : Process(TempoFrame(level, period))

\* a frame without bands
Bandless ==
    /\ frames < MaxHistoryFrames
    /\ \E period \in {250, 125} : Process([NoFrame EXCEPT !.frame_period = period])

NextHistory == Tracked \/ Bandless \/ Reset

SpecHistory == InitHistory /\ [][NextHistory]_vars

----------------------------------------------------------------------------
(* SpecReconfigure: a stream of spectra with flux on every second frame or
   so, long enough for the tracker to lock, and set_config at any moment *)

MaxReconfigureFrames == 6

InitReconfigure == \E c \in CacheConfigs : Start(c, Free)

\* a spectrum frame, 250 ms after the previous one
Spectral ==
    /\ frames < MaxReconfigureFrames
    /\ \E level \in FluxLevels : Process(SpectrumFrame(<<level, level, level>>))

NextReconfigure == Spectral \/ Reconfigure

SpecReconfigure == InitReconfigure /\ [][NextReconfigure]_vars

----------------------------------------------------------------------------
(* SpecCaller: the caller owns the arrays of the frame.  band_flux of the
   bundle is a std::span, a pointer and a length into the caller's array, so
   what a reader of the bundle finds there is what the array holds at that
   moment; once the array is released the read is undefined and may find
   anything. *)

MaxCallerFrames == 2

\* values a float of the flux array may hold
FluxValues == {0, 100, 700}

InitCaller == Start(DefaultConfig, Free)

\* a frame of two bands with a flux array of two floats
Hear ==
    /\ frames < MaxCallerFrames
    /\ \E a \in FluxValues, b \in FluxValues : Process(BandFrame(<<50, 20>>, <<a, b>>))

\* the caller of process writes into its own flux array, or releases it
CallerTouches(name, contents) ==
    /\ op \in {"process", "overwrite", "release"}
    /\ Len(frame.band_flux) > 0
    /\ op' = name
    /\ frame' = [frame EXCEPT !.band_flux = contents]
    /\ features' = [features EXCEPT !.band_flux = contents]
    /\ UNCHANGED <<eng, trace, frames, since, twin, twin_features, plan, stage>>

\* the caller overwrites one float of the array
Overwrite ==
    \E i \in 1..Len(frame.band_flux), v \in FluxValues :
        /\ op # "release"
        /\ CallerTouches("overwrite", [frame.band_flux EXCEPT ![i] = v])

\* the caller releases the array: the span dangles and a read finds anything
Release ==
    \E a \in FluxValues, b \in FluxValues : CallerTouches("release", <<a, b>>)

NextCaller == Hear \/ Overwrite \/ Release

SpecCaller == InitCaller /\ [][NextCaller]_vars

----------------------------------------------------------------------------
(* SpecLinear: a few frames of any kind, with resets between them, then an
   impulse train at 125 ms that is long enough for the cursor of a history
   of 32 entries to come round *)

MaxLinearWarm == 2

LinearConfigs == {DefaultConfig, ConfigShortWindow}

InitLinear == \E c \in LinearConfigs : Start(c, Free)

\* a frame of two bands, at one of two frame periods or a degenerate one
Varied ==
    /\ frames < MaxLinearWarm
    /\ \E level \in FluxLevels, period \in {250, 125, 0} : Process(TempoFrame(level, period))

\* a frame without bands
Gap ==
    /\ frames < MaxLinearWarm
    /\ Process([NoFrame EXCEPT !.frame_period = 250])

Cleared == plan = Free /\ Reset

\* from here on the stream is an impulse train
Strike ==
    /\ plan = Free
    /\ plan' = [kind |-> "train", period |-> 3, tick |-> 0]
    /\ op' = "strike"
    /\ UNCHANGED <<eng, features, frame, trace, frames, since, twin, twin_features, stage>>

NextLinear == Varied \/ Gap \/ Cleared \/ Strike \/ Train

SpecLinear == InitLinear /\ [][NextLinear]_vars

----------------------------------------------------------------------------
(* SpecSearch: impulse trains at 125 ms under tempo ranges that are wide,
   given in the wrong order, of a single tempo, so low that the longest lag
   leaves the buffer, and empty *)

ConfigSwapped == [TrainConfig EXCEPT !.tempo_min_bpm = 180, !.tempo_max_bpm = 60]
ConfigOneTempo == [TrainConfig EXCEPT !.tempo_min_bpm = 120, !.tempo_max_bpm = 120]
ConfigSlow == [TrainConfig EXCEPT !.tempo_min_bpm = 5, !.tempo_max_bpm = 600]
ConfigNoTempo == [TrainConfig EXCEPT !.tempo_min_bpm = 0, !.tempo_max_bpm = 0]
SearchConfigs == {TrainConfig, ConfigSwapped, ConfigOneTempo, ConfigSlow, ConfigNoTempo}

InitSearch ==
    \E c \in SearchConfigs, L \in TrainPeriods : Start(c, [kind |-> "train", period |-> L, tick |-> 0])

NextSearch == Train

SpecSearch == InitSearch /\ [][NextSearch]_vars

----------------------------------------------------------------------------
(* SpecOnset: four bands, so that the mid group holds three of them, with a
   flux array whose first three values have either sign *)

MaxOnsetFrames == 2

\* a smoothing factor above 1, which the code clamps
ConfigFastBaseline == [DefaultConfig EXCEPT !.band_flux_smoothing = 150]
OnsetConfigs == {DefaultConfig, ConfigFastBaseline}

OnsetFluxes == {-100, 0, 100}

InitOnset == \E c \in OnsetConfigs : Start(c, Free)

Flux ==
    /\ frames < MaxOnsetFrames
    /\ \E a \in OnsetFluxes, b \in OnsetFluxes, c \in OnsetFluxes :
           Process(BandFrame(<<50, 20, 10, 10>>, <<a, b, c, 0>>))

NextOnset == Flux

SpecOnset == InitOnset /\ [][NextOnset]_vars

----------------------------------------------------------------------------
(* SpecRelayout: the stream of spectra of SpecReconfigure, on which the
   tracker locks, with frames of another band layout in between: two bands
   of energies, or no band at all *)

OtherLayouts == {NoFrame, BandFrame(<<50, 20>>, <<100, 100>>)}

\* a frame of another layout, 250 ms after the previous one; the observer
\* notes the tempo state the engine had before the call
Relayout ==
    /\ plan = Free
    /\ frames < MaxReconfigureFrames
    /\ \E layout \in OtherLayouts :
       \E f \in {[layout EXCEPT !.frame_period = 250]} :
       \E r \in {process(eng, f)} :
           /\ eng' = r.e
           /\ features' = r.features
           /\ trace' = r.trace
           /\ frame' = f
           /\ since' = Count(since, r)
           /\ op' = "process"
           /\ frames' = frames + 1
           /\ watch' = eng.tempo_state_
           /\ UNCHANGED <<twin, twin_features, plan, member, player>>

NextRelayout == Spectral \/ Relayout

SpecRelayout == InitReconfigure /\ [][NextRelayout]_vars

----------------------------------------------------------------------------
(* SpecResidue: an engine with a history of frames is reset, or prepared
   for a band count, and a newly constructed engine of the same
   configuration is prepared for the same band count; from then on both
   engines are fed the same frames *)

MaxResidueWarm == 3
MaxPairedFrames == 2

\* the frames of the history: spectra with and without flux, and two bands
\* at a frame period that asks for another history length
HistoryFrames == {SpectrumFrame(<<100, 100, 100>>), SpectrumFrame(<<0, 0, 0>>), TempoFrame(100, 125)}

\* the frames after the reset: a spectrum, two bands, two bands at a
\* degenerate frame period, no band at all
PairedFrames ==
    {SpectrumFrame(<<100, 100, 100>>), TempoFrame(100, 250), TempoFrame(100, 0),
     [NoFrame EXCEPT !.frame_period = 250]}

Paired(tick) == [kind |-> "pair", period |-> 0, tick |-> tick]

InitResidue == \E c \in CacheConfigs : Start(c, Free)

\* a frame of the history
Past ==
    /\ frames < MaxResidueWarm
    /\ \E f \in HistoryFrames : Process(f)

\* the used engine is reset, or prepared for n bands; the other engine is
\* constructed and prepared; the observer notes the tempo state that the
\* used engine had
Rewound(name, e, n) ==
    /\ plan = Free
    /\ eng' = e
    /\ twin' = prepare(FeatureExtractor(eng.config_), n)
    /\ features' = NoFeatures
    /\ twin_features' = NoFeatures
    /\ op' = name
    /\ plan' = Paired(0)
    /\ trace' = [NoTrace EXCEPT !.arg = n]
    /\ since' = NoCount
    /\ watch' = eng.tempo_state_
    /\ UNCHANGED <<frame, frames, member, player>>

ResetUsed == Rewound("reset", reset(eng), eng.band_count_)

PrepareUsed == \E n \in {0, 2, 3} : Rewound("prepare", prepare(eng, n), n)

\* the same frame through both engines
Same ==
    /\ plan.kind = "pair"
    /\ plan.tick < MaxPairedFrames
    /\ \E f \in PairedFrames :
       \E r \in {process(eng, f)}, t \in {process(twin, f)} :
           /\ eng' = r.e
           /\ features' = r.features
           /\ trace' = r.trace
           /\ twin' = t.e
           /\ twin_features' = t.features
           /\ frame' = f
           /\ since' = Count(since, r)
           /\ op' = "process"
           /\ plan' = Paired(plan.tick + 1)
           /\ UNCHANGED <<frames, stage>>

NextResidue == Past \/ ResetUsed \/ PrepareUsed \/ Same

SpecResidue == InitResidue /\ [][NextResidue]_vars

----------------------------------------------------------------------------
(* The band animation: InstrumentStateMachine (animations/band/instrument.cpp).
   Scores in hundredths, times in milliseconds, bars and bar phase in
   hundredths.  The fps fields of MemberConfig are not read by the state
   machine and are left out. *)

MemberConfig ==
    [ idle_floor |-> 6, fast_in |-> 65, fast_out |-> 45,
      spotlight_score_in |-> 90, spotlight_score_out |-> 55, spotlight_min_bars |-> 100,
      idle_hold_sec |-> 800, fast_hold_sec |-> 600 ]

InstrumentStateMachine(cfg) ==
    [ cfg_ |-> cfg, state_ |-> "Idle",
      above_idle_timer_ |-> 0, below_idle_timer_ |-> 0,
      above_fast_timer_ |-> 0, below_fast_timer_ |-> 0,
      spotlight_bars_elapsed_ |-> 0, last_bar_phase_ |-> 0, spotlight_locked_ |-> FALSE ]

\* an Idle member that goes to Normal on the first update above the floor
handle_idle_without_hold(m, dt, activity) ==
    IF activity > m.cfg_.idle_floor
    THEN [m EXCEPT !.state_ = "Normal", !.above_idle_timer_ = 0, !.below_idle_timer_ = 0]
    ELSE [m EXCEPT !.above_idle_timer_ = 0]

handle_idle(m, dt, activity) ==
    IF activity > m.cfg_.idle_floor
    THEN IF m.above_idle_timer_ + dt >= m.cfg_.idle_hold_sec
         THEN [m EXCEPT !.state_ = "Normal", !.above_idle_timer_ = 0, !.below_idle_timer_ = 0]
         ELSE [m EXCEPT !.above_idle_timer_ = @ + dt]
    ELSE [m EXCEPT !.above_idle_timer_ = 0]

handle_normal(m, dt, activity) ==
    LET m1 == IF activity > m.cfg_.fast_in
              THEN IF m.above_fast_timer_ + dt >= m.cfg_.fast_hold_sec
                   THEN [m EXCEPT !.state_ = "Fast", !.above_fast_timer_ = 0, !.below_fast_timer_ = 0]
                   ELSE [m EXCEPT !.above_fast_timer_ = @ + dt]
              ELSE [m EXCEPT !.above_fast_timer_ = 0]
    IN  IF activity < m1.cfg_.idle_floor
        THEN IF m1.below_idle_timer_ + dt >= m1.cfg_.idle_hold_sec
             THEN [m1 EXCEPT !.state_ = "Idle", !.below_idle_timer_ = 0, !.above_idle_timer_ = 0]
             ELSE [m1 EXCEPT !.below_idle_timer_ = @ + dt]
        ELSE [m1 EXCEPT !.below_idle_timer_ = 0]

handle_fast(m, dt, activity) ==
    IF activity < m.cfg_.fast_out
    THEN IF m.below_fast_timer_ + dt >= m.cfg_.fast_hold_sec
         THEN [m EXCEPT !.state_ = "Normal", !.below_fast_timer_ = 0]
         ELSE [m EXCEPT !.below_fast_timer_ = @ + dt]
    ELSE [m EXCEPT !.below_fast_timer_ = 0]

\* a Spotlight member that leaves as soon as the score is low
handle_spotlight_without_bars(m, dt, spotlight, bar_phase) ==
    LET m1 == [m EXCEPT !.spotlight_bars_elapsed_ = IF bar_phase < m.last_bar_phase_ THEN @ + Q ELSE @,
                        !.last_bar_phase_ = bar_phase]
    IN  IF spotlight < m1.cfg_.spotlight_score_out
        THEN [m1 EXCEPT !.spotlight_locked_ = FALSE, !.state_ = "Normal", !.spotlight_bars_elapsed_ = 0]
        ELSE m1

handle_spotlight(m, dt, spotlight, bar_phase) ==
    LET m1 == [m EXCEPT !.spotlight_bars_elapsed_ = IF bar_phase < m.last_bar_phase_ THEN @ + Q ELSE @,
                        !.last_bar_phase_ = bar_phase]
    IN  IF ~m1.spotlight_locked_
        THEN IF spotlight < m1.cfg_.spotlight_score_out
             THEN [m1 EXCEPT !.state_ = "Normal", !.spotlight_bars_elapsed_ = 0]
             ELSE m1
        ELSE IF m1.spotlight_bars_elapsed_ >= m1.cfg_.spotlight_min_bars
                /\ spotlight < m1.cfg_.spotlight_score_out
             THEN [m1 EXCEPT !.spotlight_locked_ = FALSE, !.state_ = "Normal",
                             !.spotlight_bars_elapsed_ = 0]
             ELSE m1

\* the test that ends update: a beat with a high enough spotlight score
EntersSpotlightOnScoreAlone(m, spotlight, beat_now) ==
    m.state_ # "Spotlight" /\ spotlight >= m.cfg_.spotlight_score_in

EntersSpotlight(m, spotlight, beat_now) ==
    m.state_ # "Spotlight" /\ beat_now /\ spotlight >= m.cfg_.spotlight_score_in

update(m, dt, activity, spotlight, beat_now, bar_phase) ==
    LET m1 == CASE m.state_ = "Idle" -> handle_idle(m, dt, activity)
                [] m.state_ = "Normal" -> handle_normal(m, dt, activity)
                [] m.state_ = "Fast" -> handle_fast(m, dt, activity)
                [] m.state_ = "Spotlight" -> handle_spotlight(m, dt, spotlight, bar_phase)
    IN  IF EntersSpotlight(m1, spotlight, beat_now)
        THEN [m1 EXCEPT !.state_ = "Spotlight", !.spotlight_locked_ = TRUE,
                        !.spotlight_bars_elapsed_ = 0, !.last_bar_phase_ = bar_phase]
        ELSE m1

force_spotlight(m, bars) ==
    [m EXCEPT !.state_ = "Spotlight", !.spotlight_locked_ = TRUE,
              !.spotlight_bars_elapsed_ = Max(0, bars)]

end_spotlight(m) ==
    IF m.state_ = "Spotlight"
    THEN [m EXCEPT !.state_ = "Normal", !.spotlight_locked_ = FALSE, !.spotlight_bars_elapsed_ = 0]
    ELSE m

----------------------------------------------------------------------------
(* SpecMember: a member driven by update, force_spotlight and end_spotlight;
   after a few calls the music may settle on one level of activity, without
   beats, for ever.  The animation calls update on every frame, which is
   what the fairness condition says. *)

MaxMemberUpdates == 3

\* the spotlight threshold of the repository's test, with shorter holds and
\* a lower score to leave the spotlight
MemberConfigQuick ==
    [MemberConfig EXCEPT !.spotlight_score_in = 80, !.spotlight_score_out = 40,
                         !.idle_hold_sec = 500, !.fast_hold_sec = 250]
MemberConfigs == {MemberConfig, MemberConfigQuick}

Sustain(level) == [kind |-> "sustain", level |-> level]

NoWatch ==
    [ quiet |-> TRUE, held |-> 0, run |-> 0, entry |-> "none", left |-> "none", wraps |-> 0,
      dt |-> 0, activity |-> 0, spotlight |-> 0, beat_now |-> FALSE, bar_phase |-> 0, bars |-> 0 ]

\* the observer of an update: the arguments, whether any beat or forced
\* spotlight has happened, for how long activity has been above the entry
\* threshold of the state on consecutive updates since the member came into
\* it, how the member came into Spotlight, the bar wraps since then, and
\* how it had come into the Spotlight it has just left
Watched(w, m, m1, dt, activity, spotlight, beat_now, bar_phase) ==
    LET threshold == IF m.state_ = "Idle" THEN m.cfg_.idle_floor ELSE m.cfg_.fast_in
        held == IF m.state_ \in {"Idle", "Normal"} /\ activity > threshold THEN w.run + dt ELSE 0
        wrapped == IF bar_phase < w.bar_phase THEN 1 ELSE 0
    IN  [ quiet |-> w.quiet /\ ~beat_now,
          held |-> held,
          run |-> IF m1.state_ = m.state_ THEN held ELSE 0,
          entry |-> IF m1.state_ # "Spotlight" THEN "none"
                    ELSE IF m.state_ # "Spotlight" THEN "update" ELSE w.entry,
          left |-> IF m.state_ = "Spotlight" /\ m1.state_ # "Spotlight" THEN w.entry ELSE "none",
          wraps |-> IF m.state_ = "Spotlight" THEN w.wraps + wrapped ELSE 0,
          dt |-> dt, activity |-> activity, spotlight |-> spotlight,
          beat_now |-> beat_now, bar_phase |-> bar_phase, bars |-> 0 ]

InitMember ==
    /\ eng = << >> /\ features = NoFeatures /\ frame = NoFrame /\ trace = NoTrace
    /\ since = NoCount /\ twin = << >> /\ twin_features = NoFeatures
    /\ op = "init" /\ frames = 0 /\ plan = Free
    /\ \E cfg \in MemberConfigs : member = InstrumentStateMachine(cfg)
    /\ player = << >>
    /\ watch = NoWatch

MemberCalled(name, m, w) ==
    /\ member' = m
    /\ watch' = w
    /\ op' = name
    /\ UNCHANGED <<eng, features, frame, trace, since, twin, twin_features, player>>

Updated(dt, activity, spotlight, beat_now, bar_phase) ==
    \E m \in {update(member, dt, activity, spotlight, beat_now, bar_phase)} :
        MemberCalled("update", m, Watched(watch, member, m, dt, activity, spotlight, beat_now, bar_phase))

\* one frame of the animation
Update ==
    /\ plan = Free
    /\ frames < MaxMemberUpdates
    /\ frames' = frames + 1
    /\ UNCHANGED plan
    /\ \E dt \in {0, 500}, activity \in {0, 6, 65, 100}, spotlight \in {40, 90},
          beat_now \in BOOLEAN, bar_phase \in {0, 50} :
           Updated(dt, activity, spotlight, beat_now, bar_phase)

ForceSpotlight ==
    /\ plan = Free
    /\ op # "force_spotlight"
    /\ UNCHANGED <<frames, plan>>
    /\ \E bars \in {Q, -Q} :
           MemberCalled("force_spotlight", force_spotlight(member, bars),
                        [watch EXCEPT !.quiet = FALSE, !.run = 0, !.held = 0, !.entry = "force",
                                      !.left = "none", !.wraps = 0, !.bars = bars])

EndSpotlight ==
    /\ plan = Free
    /\ op # "end_spotlight"
    /\ UNCHANGED <<frames, plan>>
    /\ MemberCalled("end_spotlight", end_spotlight(member),
                    IF member.state_ = "Spotlight"
                    THEN [watch EXCEPT !.run = 0, !.held = 0, !.entry = "none",
                                       !.left = watch.entry, !.wraps = 0]
                    ELSE [watch EXCEPT !.left = "none"])

\* from here on the activity stays at one level and no beat comes
Settle ==
    /\ plan = Free
    /\ member.state_ # "Spotlight"
    /\ \E level \in {0, 6, 50, 100} : plan' = Sustain(level)
    /\ op' = "settle"
    /\ UNCHANGED <<eng, features, frame, trace, frames, since, twin, twin_features, stage>>

\* a frame of the settled music: time passes, the bar goes round
Sustained ==
    /\ plan.kind = "sustain"
    /\ UNCHANGED <<frames, plan>>
    /\ \E dt \in {250, 500}, bar_phase \in {0, 50} : Updated(dt, plan.level, 40, FALSE, bar_phase)

NextMember == Update \/ ForceSpotlight \/ EndSpotlight \/ Settle \/ Sustained

SpecMember == InitMember /\ [][NextMember]_vars /\ WF_vars(Sustained)

----------------------------------------------------------------------------
(* The band animation: SpritePlayer (animations/band/sprite_types.cpp).
   A sequence is its number of frames, 0 for none or an empty one; fps in
   frames per second; times in twelfths of a second, in which the frame
   durations of the rates used here are whole numbers; phases in eighths,
   which a float holds exactly, so that a drop of exactly 0.5 is one. *)

Second == 12
WholePhase == 8

SpritePlayer ==
    [ sequence_frames_ |-> 0, fps_ |-> 6, accumulator_ |-> 0, index_ |-> 0,
      phase_lock_ |-> FALSE, last_beat_phase_ |-> 0 ]

SpritePlayer_reset(p) ==
    [p EXCEPT !.accumulator_ = 0, !.index_ = 0, !.last_beat_phase_ = 0]

set_sequence(p, sequence) ==
    SpritePlayer_reset([p EXCEPT !.sequence_frames_ = sequence])

set_fps(p, fps) == [p EXCEPT !.fps_ = Max(0, fps)]

set_phase_lock(p, enabled) == [p EXCEPT !.phase_lock_ = enabled]

\* the frames played by the clock: the accumulated time in frame durations
ClockFrames(p, delta_seconds) ==
    LET frame_duration == Second \div p.fps_
        accumulated == p.accumulator_ + delta_seconds
    IN  [p EXCEPT !.accumulator_ = accumulated % frame_duration,
                  !.index_ = (@ + accumulated \div frame_duration) % p.sequence_frames_]

\* a player that takes every drop of the phase for a wrap
SpritePlayer_update_on_any_drop(p, delta_seconds, beat_phase) ==
    IF p.sequence_frames_ = 0 THEN p
    ELSE IF p.phase_lock_
    THEN LET wrapped_phase == Clamp(beat_phase, 0, WholePhase)
         IN  [p EXCEPT !.index_ = IF wrapped_phase < p.last_beat_phase_
                                  THEN (@ + 1) % p.sequence_frames_ ELSE @,
                       !.last_beat_phase_ = wrapped_phase]
    ELSE IF p.fps_ <= 0 THEN p
    ELSE ClockFrames(p, delta_seconds)

SpritePlayer_update(p, delta_seconds, beat_phase) ==
    IF p.sequence_frames_ = 0 THEN p
    ELSE IF p.phase_lock_
    THEN LET wrapped_phase == Clamp(beat_phase, 0, WholePhase)
         IN  [p EXCEPT !.index_ = IF wrapped_phase < p.last_beat_phase_ - WholePhase \div 2
                                  THEN (@ + 1) % p.sequence_frames_ ELSE @,
                       !.last_beat_phase_ = wrapped_phase]
    ELSE IF p.fps_ <= 0 THEN p
    ELSE ClockFrames(p, delta_seconds)

----------------------------------------------------------------------------
(* SpecPlayer: a player whose owner sets sequences, frame rates and the phase
   lock, resets it and updates it, in any order. *)

Sequences == {0, 2, 3}
FrameRates == {0, 2, 4}
Deltas == {Second \div 4, Second \div 2}
BeatPhases == {1, 5, 7, 14}

\* the observer of the player: whether an update has been made, its
\* beat_phase as given, and the clamped beat_phase of the latest phase-locked
\* update of a sequence since the index was last returned to 0 (0 if none)
NoPlayerWatch == [updated |-> FALSE, beat_phase |-> 0, seen |-> 0]

InitPlayer ==
    /\ eng = << >> /\ features = NoFeatures /\ frame = NoFrame /\ trace = NoTrace
    /\ since = NoCount /\ twin = << >> /\ twin_features = NoFeatures
    /\ op = "init" /\ frames = 0 /\ plan = Free
    /\ member = << >>
    /\ player = SpritePlayer
    /\ watch = NoPlayerWatch

PlayerCalled(name, p, w) ==
    /\ player' = p
    /\ watch' = w
    /\ op' = name
    /\ UNCHANGED <<eng, features, frame, trace, frames, since, twin, twin_features, plan, member>>

SetSequence ==
    \E sequence \in Sequences :
        PlayerCalled("set_sequence", set_sequence(player, sequence), [watch EXCEPT !.seen = 0])

SetFps == \E fps \in FrameRates : PlayerCalled("set_fps", set_fps(player, fps), watch)

SetPhaseLock ==
    \E enabled \in BOOLEAN : PlayerCalled("set_phase_lock", set_phase_lock(player, enabled), watch)

ResetPlayer == PlayerCalled("reset", SpritePlayer_reset(player), [watch EXCEPT !.seen = 0])

UpdatePlayer ==
    \E delta_seconds \in Deltas, beat_phase \in BeatPhases :
        PlayerCalled("update", SpritePlayer_update(player, delta_seconds, beat_phase),
                     [ updated |-> TRUE, beat_phase |-> beat_phase,
                       seen |-> IF player.sequence_frames_ > 0 /\ player.phase_lock_
                                THEN Clamp(beat_phase, 0, WholePhase) ELSE watch.seen ])

NextPlayer == SetSequence \/ SetFps \/ SetPhaseLock \/ ResetPlayer \/ UpdatePlayer

SpecPlayer == InitPlayer /\ [][NextPlayer]_vars

----------------------------------------------------------------------------
(* Properties of the tempo tracker *)

PerBar == Max(1, eng.config_.beats_per_bar)

\* the tracker's numbers, in the engine and in the last returned bundle
TempoNumbersExceptBarPhase ==
    /\ eng.tempo_state_.bpm >= 0
    /\ 0 <= eng.tempo_state_.beat_phase /\ eng.tempo_state_.beat_phase < PhaseUnits
    /\ 0 <= eng.beat_counter_in_bar_ /\ eng.beat_counter_in_bar_ < PerBar
    /\ features.bpm >= 0
    /\ 0 <= features.beat_phase /\ features.beat_phase < PhaseUnits
    /\ 0 <= eng.tempo_state_.bar_phase
    /\ 0 <= features.bar_phase

C3_DownbeatIffWrapToZero ==
    [][ /\ (op' = "process" =>
              LET before == IF trace'.resized THEN 0 ELSE eng.beat_counter_in_bar_
                  per_bar == Max(1, eng'.config_.beats_per_bar)
              IN  features'.downbeat <=>
                      \E j \in 1..trace'.wraps : (before + j) % per_bar = 0)
        /\ (op' # "process" => features' = features) ]_vars

\* a frame whose wrap closed the bar
C3_Witness == op = "process" /\ features.downbeat /\ trace.wraps > 0

\* C4: a process call with frame_period <= 0 (band count unchanged and not
\* zero) returns the bpm, beat_phase and bar_phase held before the call with
\* downbeat = false, and leaves the onset history, its write cursor, bpm,
\* beat_phase, confidence and the beat counter unchanged.
C4_DegeneratePeriodIsInert ==
    [][ (op' = "process" /\ frame'.frame_period <= 0 /\ ~trace'.resized /\ trace'.band_count # 0) =>
            /\ features'.bpm = eng.tempo_state_.bpm
            /\ features'.beat_phase = eng.tempo_state_.beat_phase
            /\ features'.bar_phase = eng.tempo_state_.bar_phase
            /\ ~features'.downbeat
            /\ eng'.onset_history_ = eng.onset_history_
            /\ eng'.onset_history_write_pos_ = eng.onset_history_write_pos_
            /\ eng'.tempo_state_.bpm = eng.tempo_state_.bpm
            /\ eng'.tempo_state_.beat_phase = eng.tempo_state_.beat_phase
            /\ eng'.tempo_state_.confidence = eng.tempo_state_.confidence
            /\ eng'.beat_counter_in_bar_ = eng.beat_counter_in_bar_ ]_vars

\* a degenerate frame arriving while the tracker is locked and mid-beat
C4_Witness ==
    /\ op = "process"
    /\ frame.frame_period <= 0
    /\ ~trace.resized
    /\ trace.band_count # 0
    /\ features.bpm > 0
    /\ features.beat_phase > 0
    /\ eng.onset_history_write_pos_ > 0

\* C8, as stated: over any run of process calls the number of frames
\* reporting downbeat equals the number of beat-phase wraps divided by
\* beats_per_bar.
C8_DownbeatsAreWrapsPerBar ==
    since.run_downbeats = since.run_wraps \div PerBar

\* C8, amended: over a run of process calls in which the beat counter is not
\* put back to 0 (bpm stays above 0, the band count does not change) and no
\* single frame wraps more than beats_per_bar times, the number of frames
\* reporting downbeat equals the number of wraps divided by beats_per_bar.
C8_DownbeatsAreWrapsPerBarWhileLocked ==
    ~since.multi => since.bar_downbeats = since.bar_wraps \div PerBar

\* two bars closed, one wrap at a time
C8_Witness == ~since.multi /\ since.bar_downbeats >= 2

----------------------------------------------------------------------------
(* Losing lock *)

\* confidence is multiplied by 0.95 on a frame without a qualifying candidate
ConfidenceDecays ==
    [][ (op' = "process" /\ trace'.tempo_ran /\ ~trace'.qualified /\ ~trace'.resized) =>
            eng'.tempo_state_.confidence = Scale(eng.tempo_state_.confidence, 95) ]_vars

\* once 0 during silence, bpm stays 0
SilentZeroStays ==
    [][ (plan.kind = "quiet" /\ eng.tempo_state_.bpm = 0 /\ plan'.kind = "quiet") =>
            eng'.tempo_state_.bpm = 0 ]_vars

C9_ZeroBpmZeroPhase ==
    eng.tempo_state_.bpm = 0 =>
        /\ eng.tempo_state_.beat_phase = 0
        /\ eng.tempo_state_.bar_phase = 0
        /\ eng.beat_counter_in_bar_ = 0
        /\ (op = "process" /\ frame.frame_period > 0 =>
                features.bpm = 0 /\ features.beat_phase = 0 /\ features.bar_phase = 0)

\* the frame on which a locked tracker lost its lock
C9_Witness ==
    /\ op = "process"
    /\ frame.frame_period > 0
    /\ trace.lost
    /\ eng.tempo_state_.bpm = 0

----------------------------------------------------------------------------
(* Impulse trains *)

\* C7: fed an impulse train with one impulse every L frames, once the history
\* is filled the selected autocorrelation lag is L.
C7_ImpulseTrainSelectsItsLag ==
    (plan.kind = "train" /\ op = "process" /\ frames >= Len(eng.onset_history_)) =>
        trace.lag = plan.period

----------------------------------------------------------------------------
(* A-weighting on and off *)

\* the pitch class of the highest spike of the last frame
HighSpikeClass ==
    LET high == CHOOSE i \in 1..Len(frame.fft_magnitudes) :
                    /\ frame.fft_magnitudes[i] > 0
                    /\ \A j \in (i + 1)..Len(frame.fft_magnitudes) : frame.fft_magnitudes[j] = 0
    IN  eng.chroma_bin_map_[high]

\* C6: two engines whose configs differ only in apply_a_weighting, fed the
\* same two-spike spectrum, return different features: the engine with
\* A-weighting disabled reports a strictly greater treble_energy_instantaneous,
\* a strictly greater spectral_centroid and a strictly greater share of chroma
\* energy in the high spike's pitch class.
C6_UnweightedIsBrighter ==
    (plan.kind = "pair" /\ op = "process") =>
        /\ twin_features.treble_energy_instantaneous > features.treble_energy_instantaneous
        /\ twin_features.spectral_centroid > features.spectral_centroid
        /\ twin_features.chroma_available /\ features.chroma_available
        /\ twin_features.chroma[HighSpikeClass] > features.chroma[HighSpikeClass]

----------------------------------------------------------------------------
(* Band buffers *)

\* the three band-indexed buffers have the engine's band count
BuffersHaveBandCount ==
    /\ Len(eng.band_envelopes_) = eng.band_count_
    /\ Len(eng.band_flux_baseline_) = eng.band_count_
    /\ Len(eng.weighted_band_buffer_) = eng.band_count_

\* a process call that changes the band count sees the buffers zeroed: what
\* it leaves in them is one smoothing step away from 0
ResizeReadsZeroes ==
    [][ (op' = "process" /\ trace'.resized) =>
            /\ eng'.band_count_ = ResolvedBandCount(frame')
            /\ eng'.band_envelopes_ =
                   [i \in 1..eng'.band_count_ |->
                       apply_envelope(eng'.config_, Max(BandsOf(eng', frame')[i], 0), 0)]
            /\ eng'.band_flux_baseline_ =
                   [i \in 1..eng'.band_count_ |->
                       IF trace'.matched
                       THEN Scale(Max(frame'.band_flux[i], 0), Clamp(eng'.config_.band_flux_smoothing, 0, 100))
                       ELSE 0] ]_vars

\* C1: after any sequence of prepare, reset, set_config and process calls the
\* band envelope buffer, the flux-baseline buffer and the weighted-band buffer
\* each have length equal to the engine's band count; and a process call that
\* resolves a different band count re-sizes and zeroes all three before it
\* reads any of their elements.
C1_BandBuffersFollowBandCount == []BuffersHaveBandCount /\ ResizeReadsZeroes

\* a frame with three bands arriving at an engine that held non-zero
\* envelopes and baselines for two
C1_Witness ==
    /\ op = "process"
    /\ trace.resized
    /\ trace.matched
    /\ eng.band_count_ = 3
    /\ frames >= 2
    /\ eng.band_envelopes_[3] > 0

\* flux array empty or not of the engine's band count
FluxMismatch(e, f) == Len(f.band_flux) = 0 \/ Len(f.band_flux) # e.band_count_

\* C10, as stated: when the band_flux array of a frame is empty or its length
\* differs from the current band count, bass_beat, mid_beat and treble_beat
\* are false, the onset strength passed to the tempo tracker is 0, and the
\* stored flux baselines are left unchanged by that call.
C10_MismatchLeavesBaselines ==
    [][ (op' = "process" /\ FluxMismatch(eng', frame')) =>
            /\ ~features'.bass_beat /\ ~features'.mid_beat /\ ~features'.treble_beat
            /\ trace'.onset_strength = 0
            /\ eng'.band_flux_baseline_ = eng.band_flux_baseline_ ]_vars

\* C10, amended: the same, except that a call which changes the band count
\* leaves the baselines re-sized to the new band count and zeroed.
C10_MismatchLeavesBaselinesUnlessResized ==
    [][ (op' = "process" /\ FluxMismatch(eng', frame')) =>
            /\ ~features'.bass_beat /\ ~features'.mid_beat /\ ~features'.treble_beat
            /\ trace'.onset_strength = 0
            /\ eng'.band_flux_baseline_ =
                   IF trace'.resized THEN Zeros(eng'.band_count_) ELSE eng.band_flux_baseline_ ]_vars

\* a frame with a flux array of the wrong size arriving at an engine that
\* holds non-zero baselines for its band count
C10_Witness ==
    /\ op = "process"
    /\ ~trace.resized
    /\ ~trace.matched
    /\ trace.band_count = 2
    /\ Len(frame.band_flux) = 3
    /\ eng.band_flux_baseline_[1] > 0

----------------------------------------------------------------------------
(* The beat flag *)

\* the caller's beat strength reaches the threshold, or a band group fired
StrengthOrBandBeat ==
    \/ AtLeast(frame.beat_strength, eng.config_.beat_detection_threshold)
    \/ features.bass_beat \/ features.mid_beat \/ features.treble_beat

\* C11, as stated: for every process call, beat_detected equals
\* (beat_strength >= beat_detection_threshold) OR (aggregate onset strength >
\* global_onset_threshold) OR bass_beat OR mid_beat OR treble_beat, and the
\* returned beat_strength equals the caller-supplied beat_strength.
C11_BeatDetectedIsTheOr ==
    op = "process" =>
        /\ features.beat_detected <=>
               (StrengthOrBandBeat \/ Above(trace.onset_strength, eng.config_.global_onset_threshold))
        /\ features.beat_strength = frame.beat_strength

\* C11, amended: the aggregate term counts only on a frame whose flux array
\* is non-empty and has the engine's band count; on any other frame (and on
\* a frame without bands) the onset strength is 0 and is not compared with
\* the threshold, so a threshold below 0 does not report a beat.
C11_BeatDetectedIsTheOrWhenMatched ==
    op = "process" =>
        /\ features.beat_detected <=>
               (StrengthOrBandBeat
                \/ (trace.matched /\ Above(trace.onset_strength, eng.config_.global_onset_threshold)))
        /\ features.beat_strength = frame.beat_strength

\* a beat reported by the aggregated onset alone
C11_Witness ==
    /\ op = "process"
    /\ features.beat_detected
    /\ ~StrengthOrBandBeat
    /\ trace.matched
    /\ trace.onset_strength > 0
    /\ features.beat_strength = 34

----------------------------------------------------------------------------
(* The band-energy source *)

\* the mean of the values of s, each floored at 0 (0 for no value)
MeanOf(s) ==
    IF Len(s) = 0 THEN 0
    ELSE SumFrom([i \in 1..Len(s) |-> Max(s[i], 0)], 1, Len(s)) \div Len(s)

\* the source the last frame's bands come from, by the stated priority
ChosenSource ==
    IF Len(frame.fft_magnitudes) > 0 /\ Len(frame.band_bin_ranges) > 0 /\ frame.sample_rate > 0
    THEN [kind |-> "fft", count |-> Len(frame.band_bin_ranges), bands |-> eng.weighted_band_buffer_]
    ELSE IF Len(frame.instantaneous_band_energies) > 0
    THEN [kind |-> "instantaneous", count |-> Len(frame.instantaneous_band_energies),
          bands |-> frame.instantaneous_band_energies]
    ELSE [kind |-> "smoothed", count |-> Len(frame.smoothed_band_energies),
          bands |-> frame.smoothed_band_energies]

\* C12: process chooses the band-energy source by strict priority:
\* FFT-derived weighted bands iff fft_magnitudes is non-empty, band_bin_ranges
\* is non-empty and sample_rate > 0; otherwise instantaneous_band_energies if
\* non-empty; otherwise smoothed_band_energies; the band count used for the
\* frame is the length of the chosen source.  (The bundle's instantaneous
\* total is the mean of the chosen source, and weighted bands are written
\* only on the FFT path.)
C12_SourcePriority ==
    [][ op' = "process" =>
            /\ trace'.band_count = ChosenSource'.count
            /\ eng'.band_count_ = ChosenSource'.count
            /\ Len(ChosenSource'.bands) = ChosenSource'.count
            /\ features'.total_energy_instantaneous = MeanOf(ChosenSource'.bands)
            /\ (ChosenSource'.kind # "fft" /\ eng.band_count_ = eng'.band_count_ =>
                    /\ eng'.weighted_bins_ = eng.weighted_bins_
                    /\ eng'.weighted_band_buffer_ = eng.weighted_band_buffer_) ]_vars

\* a frame that carries all three sources: the weighted bands win
C12_Witness ==
    /\ op = "process"
    /\ ChosenSource.kind = "fft"
    /\ Len(frame.instantaneous_band_energies) = 2
    /\ Len(frame.smoothed_band_energies) = 4
    /\ eng.band_count_ = 3
    /\ features.total_energy_instantaneous > 0

----------------------------------------------------------------------------
(* The weighting curve and the chroma map are memoized *)

\* (bin count, sample rate, FFT size) of the last frame's spectrum
FrameKey ==
    <<Len(frame.fft_magnitudes), frame.sample_rate, FftSize(Len(frame.fft_magnitudes))>>

\* the key the curve in store was computed for, and the map's
WeightingKey == <<Len(eng.weighting_curve_), eng.weighting_sample_rate_, eng.weighting_fft_size_>>
ChromaKey == <<Len(eng.chroma_bin_map_), eng.chroma_sample_rate_, eng.chroma_fft_size_>>

\* the last frame took the FFT-weighted path
Weighted ==
    Len(frame.fft_magnitudes) > 0 /\ Len(frame.band_bin_ranges) > 0 /\ frame.sample_rate > 0

\* C13: the A-weighting curve, and likewise the chroma bin-to-pitch-class
\* map, is recomputed during a process call only when the frame's (bin count,
\* sample rate, FFT size) differs from the key stored by the previous
\* computation (a reset inside the call, forced by a new band count, clears
\* the stored key); on consecutive frames with an equal key and no
\* intervening reset/prepare/set_config the cached contents are reused
\* unchanged.
C13_CachesAreMemoized ==
    [][ op' = "process" =>
            /\ (trace'.curve_computed => (trace'.resized \/ WeightingKey # FrameKey'))
            /\ (trace'.map_computed => (trace'.resized \/ ChromaKey # FrameKey'))
            /\ (Weighted' /\ ~trace'.resized /\ WeightingKey = FrameKey' =>
                    /\ ~trace'.curve_computed
                    /\ eng'.weighting_curve_ = eng.weighting_curve_
                    /\ WeightingKey' = WeightingKey)
            /\ (Weighted' /\ ~trace'.resized /\ ChromaKey = FrameKey' =>
                    /\ ~trace'.map_computed
                    /\ eng'.chroma_bin_map_ = eng.chroma_bin_map_
                    /\ ChromaKey' = ChromaKey) ]_vars

\* a second frame with the key of the first: a curve that is not flat and a
\* map with a mapped bin are both reused
C13_Witness ==
    /\ op = "process"
    /\ Weighted
    /\ ~trace.resized /\ ~trace.curve_computed /\ ~trace.map_computed
    /\ frames >= 2
    /\ WeightingKey = FrameKey /\ ChromaKey = FrameKey
    /\ \E i \in 1..Len(eng.weighting_curve_) : eng.weighting_curve_[i] \notin {0, W}
    /\ \E i \in 1..Len(eng.chroma_bin_map_) : eng.chroma_bin_map_[i] < 12
    /\ features.chroma_available

----------------------------------------------------------------------------
(* Chroma and the ranges of the outputs *)

\* the sum of the 12 chroma values of the last bundle
ChromaSum ==
    IF \E pc \in 0..11 : features.chroma[pc] = Infinity THEN Infinity
    ELSE SumFrom([i \in 1..12 |-> features.chroma[i - 1]], 1, 12)

\* C14: in every bundle returned by process, if chroma_available is true the
\* 12 chroma values sum to 1 (here: up to the truncation of the 12 shares to
\* the grid), and if it is false all 12 are exactly 0; chroma_available can
\* be true only when chroma is enabled and the FFT-weighted path was taken.
C14_ChromaIsNormalised ==
    op = "process" =>
        /\ (features.chroma_available =>
                /\ ChromaSum \in (ChromaScale - 12)..ChromaScale
                /\ eng.config_.enable_chroma
                /\ Weighted)
        /\ (~features.chroma_available => \A pc \in 0..11 : features.chroma[pc] = 0)

\* C15: for all input frames (negative band energies, negative flux and
\* arbitrary magnitudes included) and smoothing coefficients in [0, 1], every
\* returned energy is >= 0, spectral_centroid and spectral_flatness lie in
\* [0, 1], and the chroma dominance derived by build_feature_view lies in
\* [0, 1].
C15_OutputsInRange ==
    op = "process" =>
        /\ \A v \in { features.bass_energy, features.mid_energy, features.treble_energy,
                      features.total_energy, features.bass_envelope, features.mid_envelope,
                      features.treble_envelope, features.bass_energy_instantaneous,
                      features.mid_energy_instantaneous, features.treble_energy_instantaneous,
                      features.total_energy_instantaneous } : v >= 0
        /\ features.spectral_centroid \in 0..Q
        /\ features.spectral_flatness \in 0..Q
        /\ build_feature_view(features).chroma_dominance \in 0..Q

----------------------------------------------------------------------------
(* Frames without bands, and the first frame of an engine *)

\* C16: when the resolved band source of a frame has zero bands, process
\* returns a bundle in which every energy (smoothed and instantaneous),
\* spectral_centroid, spectral_flatness and every chroma value is 0 and the
\* three band beat flags and downbeat are false.
C16_NoBandsNoLevels ==
    op = "process" /\ ChosenSource.count = 0 =>
        /\ \A v \in { features.bass_energy, features.mid_energy, features.treble_energy,
                      features.total_energy, features.bass_envelope, features.mid_envelope,
                      features.treble_envelope, features.bass_energy_instantaneous,
                      features.mid_energy_instantaneous, features.treble_energy_instantaneous,
                      features.total_energy_instantaneous } : v = 0
        /\ features.spectral_centroid = 0
        /\ features.spectral_flatness = 0
        /\ \A pc \in 0..11 : features.chroma[pc] = 0
        /\ ~features.chroma_available
        /\ ~features.bass_beat /\ ~features.mid_beat /\ ~features.treble_beat
        /\ ~features.downbeat

\* a frame with a spectrum but no bands, on an engine that had bands before
C16_Witness ==
    /\ op = "process"
    /\ ChosenSource.count = 0
    /\ Len(frame.fft_magnitudes) > 0
    /\ frames >= 2
    /\ trace.resized

\* a frame that carries smoothed bands only, none of them negative
SmoothedOnly(f) ==
    /\ Len(f.fft_magnitudes) = 0
    /\ Len(f.instantaneous_band_energies) = 0
    /\ Len(f.smoothed_band_energies) > 0
    /\ \A i \in 1..Len(f.smoothed_band_energies) : f.smoothed_band_energies[i] >= 0

\* C17: on a freshly constructed (or reset) engine, a frame with empty
\* fft_magnitudes, empty instantaneous_band_energies and N non-negative
\* smoothed_band_energies is processed from the smoothed bands, and the
\* returned total_energy equals smoothing_attack times the mean of those N
\* values, with total_energy_instantaneous equal to the mean.
C17_FirstSmoothedFrame ==
    [][ (op \in {"init", "reset"} /\ op' = "process" /\ SmoothedOnly(frame')) =>
            ( /\ trace'.band_count = Len(frame'.smoothed_band_energies)
              /\ features'.total_energy_instantaneous = MeanOf(frame'.smoothed_band_energies)
              /\ features'.total_energy =
                     Scale(MeanOf(frame'.smoothed_band_energies), eng'.config_.smoothing_attack) ) ]_vars

\* the first frame of an engine is smoothed-only and lifts the total
C17_Witness ==
    /\ op = "process"
    /\ frames = 1
    /\ SmoothedOnly(frame)
    /\ features.total_energy_instantaneous = 47
    /\ features.total_energy = 16

----------------------------------------------------------------------------
(* Band ranges *)

\* the indices the claim gives for n bands and a range (ratios in hundredths)
ClaimedIndices(n, range) ==
    LET start == Min(((Clamp(range.start_ratio, 0, Q)) * n) \div Q, n - 1)
        scaled_end == Clamp(range.end_ratio, Clamp(range.start_ratio, 0, Q), Q) * n
        ceiling == IF scaled_end % Q = 0 THEN scaled_end \div Q ELSE (scaled_end \div Q) + 1
    IN  [start |-> start, end |-> Clamp(ceiling, start + 1, n)]

\* C18: for every band count n >= 1 and every band range (ratios outside
\* [0,1] and end_ratio < start_ratio included), resolve_band_indices returns
\* start = min(floor(clamp(start_ratio,0,1)*n), n-1) and
\* end = clamp(ceil(clamp(end_ratio,clamped start,1)*n), start+1, n), so
\* 0 <= start < end <= n; for n = 0 it returns (0,0); with the default ratios
\* and 6 bands this yields [0,2), [1,5) and [4,6).
C18_BandIndices ==
    /\ \A range \in {eng.config_.bass_range, eng.config_.mid_range, eng.config_.treble_range} :
           resolve_band_indices(0, range) = [start |-> 0, end |-> 0]
    /\ op = "process" =>
           \E n \in {trace.band_count} :
               /\ n >= 1
               /\ trace.bass = ClaimedIndices(n, eng.config_.bass_range)
               /\ trace.mid = ClaimedIndices(n, eng.config_.mid_range)
               /\ trace.treble = ClaimedIndices(n, eng.config_.treble_range)
               /\ \A r \in {trace.bass, trace.mid, trace.treble} :
                      0 <= r.start /\ r.start < r.end /\ r.end <= n
               /\ (n = 6 =>
                      /\ (eng.config_.bass_range = DefaultConfig.bass_range =>
                              trace.bass = [start |-> 0, end |-> 2])
                      /\ (eng.config_.mid_range = DefaultConfig.mid_range =>
                              trace.mid = [start |-> 1, end |-> 5])
                      /\ (eng.config_.treble_range = DefaultConfig.treble_range =>
                              trace.treble = [start |-> 4, end |-> 6]))

\* six bands under ratios in the wrong order and outside [0, 1]: bass 1.5 to
\* -0.5 resolves to the last band alone, and the default ranges to the three
\* intervals of the claim
C18_Witness ==
    /\ op = "process"
    /\ trace.band_count = 6
    /\ \/ /\ eng.config_.bass_range = [start_ratio |-> 150, end_ratio |-> -50]
          /\ trace.bass = [start |-> 5, end |-> 6]
          /\ trace.mid = [start |-> 0, end |-> 6]
       \/ /\ eng.config_.bass_range = DefaultConfig.bass_range
          /\ eng.config_.mid_range = [start_ratio |-> 20, end_ratio |-> 0]
          /\ trace.bass = [start |-> 0, end |-> 2]
          /\ trace.mid = [start |-> 1, end |-> 2]
          /\ trace.treble = [start |-> 4, end |-> 6]

----------------------------------------------------------------------------
(* The length of the onset history *)

\* floor(max(tempo_history_seconds, frame_period) / frame_period) bounded to
\* [32, 2048]; both times in milliseconds
ClaimedLength(config, frame_period) ==
    LET quotient == Max(config.tempo_history_seconds, frame_period) \div frame_period
    IN  Min(Max(quotient, 32), 2048)

\* what a process call leaves in the history, given the engine before it
HistoryAfter(before, after, period) ==
    /\ Len(after.onset_history_) = ClaimedLength(after.config_, period)
    /\ after.onset_history_write_pos_ < Len(after.onset_history_)
    /\ (Len(after.onset_history_) # Len(before.onset_history_) =>
            /\ \A i \in 2..Len(after.onset_history_) : after.onset_history_[i] = 0
            /\ after.onset_history_write_pos_ = 1)

\* C19 as stated: after every process call with frame_period > 0, the
\* onset-history length equals floor(max(tempo_history_seconds, frame_period)
\* / frame_period) bounded to [32, 2048], the write cursor is strictly less
\* than that length, and whenever the length changes from the previous frame
\* every history entry is zeroed and the write cursor is reset to 0 before the
\* current onset strength is written.
C19_HistoryFollowsFramePeriod ==
    [][ (op' = "process" /\ frame'.frame_period > 0) =>
            HistoryAfter(eng, eng', frame'.frame_period) ]_vars

\* C19 amended: the same, after every process call with frame_period > 0
\* whose frame has at least one band (the call reaches the tempo tracker);
\* the length formula is the one the tracker computes for any frame period.
C19_HistoryFollowsFramePeriodWhenTracked ==
    [][ (op' = "process" /\ frame'.frame_period > 0 /\ trace'.tempo_ran) =>
            ( /\ HistoryAfter(eng, eng', frame'.frame_period)
              /\ \A period \in {1, 2, 125, 250, 5000} :
                     DesiredLength(eng'.config_, period) = ClaimedLength(eng'.config_, period) ) ]_vars

\* the second frame comes at another period than the first: the history is
\* resized from 32 to 64 entries and holds the new onset strength alone
C19_Witness ==
    /\ op = "process"
    /\ frames = 2
    /\ trace.tempo_ran
    /\ frame.frame_period = 125
    /\ Len(eng.onset_history_) = 64
    /\ eng.onset_history_write_pos_ = 1
    /\ eng.onset_history_[1] > 0

----------------------------------------------------------------------------
(* set_config *)

AllZero(s) == \A i \in 1..Len(s) : s[i] = 0

\* no spectrum frame can match the cache keys of the engine
KeysInvalid(e) ==
    /\ e.weighting_sample_rate_ = 0 /\ e.weighting_fft_size_ = 0
    /\ e.chroma_sample_rate_ = 0 /\ e.chroma_fft_size_ = 0
    /\ \A bins \in 2..9, sample_rate \in {8000, 44100, 48000} :
           /\ ~WeightingKeyMatches(e, bins, sample_rate, FftSize(bins))
           /\ ~ChromaKeyMatches(e, bins, sample_rate, FftSize(bins))

\* C20: after set_config(c), config() returns c and the engine is fully
\* reset: every band envelope and flux baseline is 0, the bass/mid/treble/
\* total envelope scalars are 0, the onset history is all zero with write
\* cursor 0, bpm, beat_phase, bar_phase and confidence are 0, the beat counter
\* is 0, and the weighting and chroma cache keys are invalidated, so that the
\* next FFT frame recomputes the curve and (chroma being enabled in c) the
\* pitch-class map, with the chroma frequency bounds of c; the band count is
\* unchanged.
C20_SetConfigResets ==
    [][ /\ (op' = "set_config" =>
              ( /\ eng'.config_ = trace'.arg
                /\ AllZero(eng'.band_envelopes_) /\ AllZero(eng'.band_flux_baseline_)
                /\ Len(eng'.band_envelopes_) = Len(eng.band_envelopes_)
                /\ eng'.bass_envelope_ = 0 /\ eng'.mid_envelope_ = 0
                /\ eng'.treble_envelope_ = 0 /\ eng'.total_envelope_ = 0
                /\ AllZero(eng'.onset_history_) /\ eng'.onset_history_write_pos_ = 0
                /\ Len(eng'.onset_history_) = Len(eng.onset_history_)
                /\ eng'.tempo_state_ = [bpm |-> 0, beat_phase |-> 0, bar_phase |-> 0, confidence |-> 0]
                /\ eng'.beat_counter_in_bar_ = 0
                /\ KeysInvalid(eng')
                /\ eng'.band_count_ = eng.band_count_ ))
        /\ (op = "set_config" /\ op' = "process" /\ Weighted' =>
              ( /\ trace'.curve_computed
                /\ (eng.config_.enable_chroma =>
                       /\ trace'.map_computed
                       /\ eng'.chroma_bin_map_ =
                              update_chroma_mapping(FeatureExtractor(eng.config_), FrameKey'[1],
                                                    FrameKey'[2], FrameKey'[3]).chroma_bin_map_) )) ]_vars

\* set_config on an engine that had locked on a tempo, with levels up and a
\* computed curve; the configuration is a new one
C20_Witness ==
    /\ op = "set_config"
    /\ features.bpm > 0
    /\ features.total_energy > 0
    /\ eng.band_count_ = 3
    /\ Len(eng.weighting_curve_) = 9
    /\ eng.config_ = ConfigHighChroma
    /\ eng.config_ = trace.arg

----------------------------------------------------------------------------
(* The bundle and the caller's arrays *)

\* C21: the AudioFeatures value returned by process is self-contained: it
\* holds no reference into the input frame or the caller's arrays, so
\* modifying or releasing the caller's band_flux array after process returns
\* does not change any field of the already-returned bundle.
C21_BundleIsSelfContained ==
    [][ op' \in {"overwrite", "release"} => features' = features ]_vars

----------------------------------------------------------------------------
(* Properties of the onset history *)

\* C25: after a process call with frame_period > 0 the linearized history is
\* the circular buffer from oldest to newest: its last element is
\* max(onset_strength, 0) of the frame, and every other element is the
\* element that stood one place later before the call, or 0 when the call
\* cleared the buffer (a changed band count or history length); by induction
\* the element at size-1-k is the value written k written frames earlier, or
\* 0 when fewer were written since the buffer was cleared.
C25_LinearHistory ==
    [][ (op' = "process" /\ frame'.frame_period > 0)
           => LET lin == eng'.onset_history_linear_
                  old == eng.onset_history_linear_
                  cleared == trace'.resized \/ Len(old) # Len(lin)
              IN  /\ Len(lin) > 0
                  /\ lin[Len(lin)] = Max(trace'.onset_strength, 0)
                  /\ \A i \in 1..(Len(lin) - 1) : lin[i] = IF cleared THEN 0 ELSE old[i + 1] ]_vars

\* the cursor of a history of 32 entries has come round, and the newest
\* entry and the oldest but one are impulses
C25_Witness ==
    /\ op = "process" /\ frames > kMinOnsetHistoryLength + MaxLinearWarm
    /\ Len(eng.onset_history_linear_) = kMinOnsetHistoryLength
    /\ eng.onset_history_linear_[2] > 0
    /\ eng.onset_history_linear_[kMinOnsetHistoryLength] > 0

\* the lags inside the buffer whose tempo 60 / (lag * frame_period) lies in
\* [low, high] bpm
LagsInTempoRange(low, high, frame_period, history_size) ==
    { lag \in 1..(history_size - 1) :
        low * lag * frame_period <= 60000 /\ 60000 <= high * lag * frame_period }

\* is picked the lag a search has to pick: 0 for none, or else the smallest
\* of the searched lags with the highest score, if that score is above 0
PickedLag(lin, searched, picked) ==
    \E total \in {SumFrom(lin, 1, Len(lin))} :
    \E scores \in {[lag \in searched |-> LagScore(lin, total, lag)]} :
        IF \A lag \in searched : scores[lag] <= 0
        THEN picked = 0
        ELSE /\ picked \in searched
             /\ scores[picked] > 0
             /\ \A lag \in searched : scores[lag] <= scores[picked]
             /\ \A lag \in searched : scores[lag] = scores[picked] => lag >= picked

----------------------------------------------------------------------------
(* Properties of the onset detector *)

\* the mean of values over the bands of a group, 0 for an empty group
GroupMean(values, group) ==
    IF group.start >= group.end THEN 0
    ELSE SumFrom(values, group.start + 1, group.end) \div (group.end - group.start)

\* the flag of a group: its flux mean exceeds max(band_onset_min_flux,
\* baseline mean * band_onset_sensitivity)
GroupBeat(config, flux, baseline, group) ==
    /\ group.start < group.end
    /\ Above(GroupMean(flux, group),
             Max(config.band_onset_min_flux,
                 GroupMean(baseline, group) * config.band_onset_sensitivity * ((Micro \div Q) \div 100)))

\* the flux with its negative values replaced by 0
Rectified(flux) == [i \in 1..Len(flux) |-> Max(flux[i], 0)]

\* the baselines before the frame: those of the engine, or 0 after the
\* reset of a changed band count
BaselinesBefore == IF trace'.resized THEN Zeros(trace'.band_count) ELSE eng.band_flux_baseline_

\* the first two sentences of C27: the baseline update and the aggregate
\* onset strength
OnsetAsStated ==
    LET flux == frame'.band_flux
        n == Len(flux)
        alpha == Clamp(eng'.config_.band_flux_smoothing, 0, 100)
        baseline == eng'.band_flux_baseline_
    IN  /\ \A i \in 1..n :
               baseline[i] = BaselinesBefore[i] + Scale(Max(flux[i], 0) - BaselinesBefore[i], alpha)
        /\ trace'.onset_strength
               = SumFrom([i \in 1..n |-> Max(0, flux[i] - baseline[i])], 1, n) \div n

\* C27 (as amended): with a flux array that matches the band count, every
\* baseline is first moved towards max(flux, 0) by clamp(band_flux_smoothing,
\* 0, 1) of the distance; the onset strength is the mean over the bands of
\* max(0, flux - baseline); and the beat flag of a group is true exactly when
\* the mean over the group of max(flux, 0) exceeds max(band_onset_min_flux,
\* mean baseline of the group * band_onset_sensitivity).
C27_OnsetDetection ==
    [][ (op' = "process" /\ trace'.matched)
           => (/\ OnsetAsStated
               /\ features'.bass_beat
                     <=> GroupBeat(eng'.config_, Rectified(frame'.band_flux), eng'.band_flux_baseline_, trace'.bass)
               /\ features'.mid_beat
                     <=> GroupBeat(eng'.config_, Rectified(frame'.band_flux), eng'.band_flux_baseline_, trace'.mid)
               /\ features'.treble_beat
                     <=> GroupBeat(eng'.config_, Rectified(frame'.band_flux), eng'.band_flux_baseline_, trace'.treble)) ]_vars

\* the mid group, three bands wide, fires on a second frame whose flux has
\* both signs, over baselines that the first frame has raised
C27_Witness ==
    /\ op = "process" /\ trace.matched /\ frames = 2
    /\ features.mid_beat /\ trace.mid.end - trace.mid.start = 3
    /\ frame.band_flux[1] < 0 /\ frame.band_flux[2] > 0
    /\ eng.band_flux_baseline_[2] > 0 /\ trace.onset_strength > 0

\* C27 (as stated): the flag of a group goes by the mean of its flux.
C27_FlagsByMeanFlux ==
    [][ (op' = "process" /\ trace'.matched)
           => (/\ features'.bass_beat
                     <=> GroupBeat(eng'.config_, frame'.band_flux, eng'.band_flux_baseline_, trace'.bass)
               /\ features'.mid_beat
                     <=> GroupBeat(eng'.config_, frame'.band_flux, eng'.band_flux_baseline_, trace'.mid)
               /\ features'.treble_beat
                     <=> GroupBeat(eng'.config_, frame'.band_flux, eng'.band_flux_baseline_, trace'.treble)) ]_vars

----------------------------------------------------------------------------
(* Properties of a changed band layout *)

\* C28: a process call whose resolved band count differs from the engine's
\* band count resets the engine before it processes the frame: the call
\* leaves what the same frame leaves on an engine that prepare has just
\* reset to the new band count, so the tempo lock is lost (bpm, confidence
\* and the phases are 0, the beat counter is 0, the onset history holds
\* nothing but the onset of this frame), for a single frame without bands in
\* the middle of a stream as for any other change.
C28_BandCountChangeResets ==
    [][ (op' = "process" /\ ResolvedBandCount(frame') # eng.band_count_)
           => (/\ trace'.resized
               /\ \E r \in {process(prepare(eng, ResolvedBandCount(frame')), frame')} :
                      eng' = r.e /\ features' = r.features
               /\ eng'.tempo_state_ = TempoTrackerState
               /\ features'.bpm = 0 /\ features'.beat_phase = 0 /\ features'.bar_phase = 0
               /\ eng'.beat_counter_in_bar_ = 0
               /\ \A i \in 2..Len(eng'.onset_history_) : eng'.onset_history_[i] = 0
               /\ eng'.onset_history_write_pos_ \in {0, 1}) ]_vars

\* a frame without bands has come in the middle of a stream on which the
\* tracker had locked
C28_Witness ==
    /\ op = "process" /\ trace.resized /\ eng.band_count_ = 0
    /\ watch # << >> /\ watch.bpm > 0 /\ watch.confidence > 0
    /\ features.bpm = 0

----------------------------------------------------------------------------
(* Properties of reset *)

\* C29: after reset() or prepare(n) on an engine with any history, every
\* frame yields the bundle that it yields on a newly constructed engine of
\* the same configuration after prepare(n) (n the band count of the engine
\* in the case of reset), and a second reset changes nothing.
\* Beyond the frames that are run, the two engines agree on all the state
\* that a later frame reads before writing it: they differ at most in the
\* lengths of the onset histories and of the weighted spectrum (re-sized
\* by the frame that uses them) and in a weighting curve whose key is
\* cleared, and the histories of the reset engine hold only zeros.
Carried(e) ==
    [e EXCEPT !.onset_history_ = << >>, !.onset_history_linear_ = << >>,
              !.weighted_bins_ = << >>, !.weighting_curve_ = << >>]

C29_ResetLeavesNoResidue ==
    /\ [](plan.kind = "pair" => features = twin_features)
    /\ [](plan.kind = "pair" => Carried(eng) = Carried(twin))
    /\ [](plan.kind = "pair" /\ plan.tick = 0 =>
             /\ eng.onset_history_ = Zeros(Len(eng.onset_history_))
             /\ eng.onset_history_linear_ = Zeros(Len(eng.onset_history_))
             /\ eng.weighted_bins_ = Zeros(Len(eng.weighted_bins_))
             /\ eng.weighting_sample_rate_ = 0 /\ eng.weighting_fft_size_ = 0)
    /\ [][ op' \in {"reset", "prepare"} => reset(eng') = eng' ]_vars

\* two frames have gone through both engines after the reset of an engine
\* that had locked on a tempo and computed a weighting curve; the engines
\* themselves still differ
C29_Witness ==
    /\ plan.kind = "pair" /\ plan.tick = MaxPairedFrames
    /\ watch # << >> /\ watch.bpm > 0
    /\ features.total_energy > 0
    /\ eng # twin

----------------------------------------------------------------------------
(* Properties of the band animation *)

\* C22: update moves a member that is not in Spotlight into Spotlight exactly
\* when beat_now is true and spotlight >= spotlight_score_in; as long as no
\* update has carried a beat (and nobody forced the spotlight) the member is
\* never in Spotlight, whatever the activity and the spotlight scores.
C22_SpotlightNeedsBeat ==
    /\ [][ (op' = "update" /\ member.state_ # "Spotlight")
             => (member'.state_ = "Spotlight"
                   <=> (watch'.beat_now /\ watch'.spotlight >= member.cfg_.spotlight_score_in)) ]_vars
    /\ [](watch.quiet => member.state_ # "Spotlight")

\* an update with a beat and a high score has just moved the member into Spotlight
C22_Witness ==
    /\ op = "update" /\ member.state_ = "Spotlight" /\ watch.entry = "update"
    /\ watch.wraps = 0 /\ watch.beat_now
    /\ watch.spotlight >= member.cfg_.spotlight_score_in

C30_SpotlightHolds ==
    /\ [][ (member.state_ = "Spotlight" /\ watch.entry = "update" /\ member'.state_ # "Spotlight")
             => \/ op' = "end_spotlight"
                \/ /\ op' = "update"
                   /\ watch'.wraps * Q >= member.cfg_.spotlight_min_bars
                   /\ watch'.spotlight < member.cfg_.spotlight_score_out ]_vars
    /\ [][ (member.state_ = "Spotlight" /\ member'.state_ # "Spotlight")
             => member'.state_ = "Normal" ]_vars

\* an update has just taken a member out of the Spotlight that an update had
\* put it in, after a bar wrap and on a low score
C30_Witness ==
    /\ op = "update" /\ watch.left = "update" /\ member.state_ = "Normal"
    /\ watch.wraps >= 1 /\ watch.spotlight < member.cfg_.spotlight_score_out

\* the frame after frame i of the player's sequence
NextFrame(i) == (i + 1) % player.sequence_frames_

\* C24 (as amended): with the phase lock on and a sequence set, an update
\* advances the frame index by exactly one, modulo the sequence length,
\* when its clamped beat_phase is more than 0.5 below the clamped beat_phase
\* of the latest phase-locked update since the last reset or set_sequence
\* (0 when there has been none), and leaves the index alone otherwise;
\* set_sequence and reset return the index to 0; the index is always less
\* than the length of a sequence with frames.
C24_PhaseLockedAdvance ==
    /\ [][ (op' = "update" /\ player.phase_lock_ /\ player.sequence_frames_ > 0)
             => player'.index_ = IF Clamp(watch'.beat_phase, 0, WholePhase) < watch.seen - WholePhase \div 2
                                 THEN NextFrame(player.index_) ELSE player.index_ ]_vars
    /\ [][ op' \in {"set_sequence", "reset"} => player'.index_ = 0 ]_vars
    /\ [](player.sequence_frames_ > 0 => player.index_ < player.sequence_frames_)

\* a phase-locked update has just advanced the index after a wrap of the phase
C24_Witness ==
    /\ op = "update" /\ player.phase_lock_ /\ player.sequence_frames_ = 3
    /\ player.index_ = 2 /\ watch.beat_phase = 1 /\ player.last_beat_phase_ = 1

\* C24 (as stated): the comparison is with the beat_phase of the previous
\* update, whatever happened between the two updates.
C24_AdvanceOnPreviousUpdate ==
    [][ (op' = "update" /\ player.phase_lock_ /\ player.sequence_frames_ > 0 /\ watch.updated)
           => player'.index_ = IF Clamp(watch'.beat_phase, 0, WholePhase) < watch.beat_phase - WholePhase \div 2
                               THEN NextFrame(player.index_) ELSE player.index_ ]_vars

====
